---------------------------- MODULE Spec2Model ----------------------------
(***************************************************************************)
(* Model of the operation lifecycle engine of the multi-account EKS        *)
(* capacity scheduler: the operation state machine (state_manager.py), the *)
(* baseline store (cluster_baseline.py), the capacity controller           *)
(* (eks_controller.py), the SQS worker (task_worker.py), discovery         *)
(* (discovery.py), the fan-out (operation_router.py) and the schedules      *)
(* (schedule_manager.py, schedule_poller.py, schedule_worker.py).          *)
(*                                                                         *)
(* Specifications:                                                         *)
(*   Spec        workers consuming fan-out messages concurrently           *)
(*   SpecStoreOk the same when no call to the document store fails          *)
(*   SpecTrip    a stop followed by a start that references it, no faults   *)
(*   SpecDerive  StateManager._derive_status as a pure function            *)
(*   SpecCreate  create_operation on arbitrary cluster lists, followed by  *)
(*               update_nodegroup_status calls applied one at a time       *)
(*   SpecLock    acquire_idempotency_lock under a clock                    *)
(*   SpecGuard   the filters of discovery on one cluster with any tags     *)
(*   SpecSched   the schedule API (create, update, delete, pause) under    *)
(*               concurrent requests                                       *)
(*   SpecPoll    concurrent schedule poller invocations, manual triggers   *)
(*   SpecPause   pause requests and poller invocations under a clock       *)
(*   SpecProd    dispatchers and workers over clusters with any tags       *)
(*   SpecTwice   a processed message delivered a second time               *)
(*   SpecFanOut  fan_out_operation, one publish at a time                  *)
(*   SpecSeed       create_operation and the fan-out step by step          *)
(*   SpecScale      scale operations with any subset of the sizes          *)
(*   SpecRetry      the retry decorator of the controller methods          *)
(*   SpecPollFaults a poller invocation whose calls may raise              *)
(*   SpecCron       is_triggered as a pure function                        *)
(*   SpecFindAsg    _find_asg_name as a pure function                      *)
(*   SpecDrop       messages that lack a required key among the queued     *)
(*   SpecSession    get_session callers sharing the session cache          *)
(*   SpecPool       discover_all_resources over its pool of tasks          *)
(*   SpecSkip       operations over nodegroups with any skip tag           *)
(*   SpecFrame      status updates applied to operations of any shape      *)
(*   SpecProgress   one worker that is always scheduled (weak fairness)    *)
(*   SpecExec       poller invocations over a cluster with any tags        *)
(*   SpecUnknown    the schedule API called with ids that are not stored   *)
(***************************************************************************)
EXTENDS Integers, Sequences, FiniteSets, TLC

VARIABLES
    asg0,       \* the ASG sizes at the start (never changes; for stating round trips)
    table,      \* operations table: key -> item (META / CLUSTER / NG rows)
    baseline,   \* cluster-state table: <<cluster_id, nodegroup_name>> -> sizes
    asg,        \* Auto Scaling Groups: nodegroup name -> sizes
    queue,      \* SQS queue: messages waiting for delivery
    wk,         \* worker invocations: worker -> handler frame
    nextOp,     \* number of operations created so far
    locks,      \* LOCK rows of the operations table: lock_key -> expires_at
    clock,      \* unix time in seconds
    lcall,      \* acquire_idempotency_lock frames: caller -> frame
    lockLog,    \* acquire calls that returned, in order of return
    dIn,        \* _derive_status: the list of child statuses passed in
    dOut,       \* _derive_status: the value returned ("" before the call)
    created,    \* operations dispatched: operation id -> [clusters, ok, by, action, target]
    nUpd,       \* update_nodegroup_status calls made so far (SpecCreate)
    ctags,      \* cluster id -> the cluster's tags, in the order describe_cluster lists them
    gIn,        \* discovery of one cluster: [tags, label_filter] passed in
    gOut,       \* discovery of one cluster: "" before, then "returned" or "dropped"
    sched,      \* schedule rows (SCHEDULE#id / META): schedule id -> item
    asgmap,     \* mapping rows (ASG#nodegroup_id / SCHEDULE): target -> schedule_id
    execs,      \* EXEC# rows written by record_execution (by and key: the writer and
                \* its minute_key, for stating properties)
    mg,         \* ScheduleManager calls in progress: caller -> frame
    pl,         \* schedule poller invocations: poller -> handler frame
    trig,       \* trigger_schedule_operation calls made, in order
    fo,         \* fan_out_operation call in progress
    snap,       \* ASG sizes and baselines when a message had been processed once
    dp,         \* an API handler or schedule trigger creating an operation: frame
    rt,         \* a controller call under its retry decorator: frame
    aIn,        \* _find_asg_name: the ASGs of the region, in the order listed
    aOut,       \* _find_asg_name: the value returned ("" before the call)
    tIn,        \* is_triggered: [cron, tz, t] passed in
    tOut,       \* is_triggered: the value returned ("" before the call)
    cc,         \* the STS session cache, its mutex and the calls in progress
    dv,         \* discover_all_resources: the pool's tasks and the results so far
    atags       \* nodegroup -> value of its ASG's eks-operator/skip tag (no entry
                \* when the ASG has no such tag)

vars == <<asg0, table, baseline, asg, queue, wk, nextOp,
          locks, clock, lcall, lockLog, dIn, dOut, created, nUpd,
          ctags, gIn, gOut, sched, asgmap, execs, mg, pl, trig, fo, snap,
          dp, rt, aIn, aOut, tIn, tOut, cc, dv, atags>>

workerVars == <<asg0, baseline, asg, queue, wk>>
lockVars   == <<locks, clock, lcall, lockLog>>
deriveVars == <<dIn, dOut>>
guardVars  == <<gIn, gOut>>
schedVars  == <<sched, asgmap, execs, mg, pl, trig>>
lastVars   == <<cc, dv, atags>>
moreVars   == <<dp, rt, aIn, aOut, tIn, tOut, lastVars>>
extVars    == <<ctags, moreVars, guardVars, schedVars, fo, snap>>

-----------------------------------------------------------------------------
(* Generic helpers *)

Range(s) == {s[i] : i \in 1..Len(s)}

Min2(a, b) == IF a < b THEN a ELSE b

RECURSIVE SumSeq(_)
SumSeq(s) == IF s = <<>> THEN 0 ELSE Head(s) + SumSeq(Tail(s))

RECURSIVE Flatten(_)
Flatten(ss) == IF ss = <<>> THEN <<>> ELSE Head(ss) \o Flatten(Tail(ss))

\* The elements of a set in the order a query returns them
RECURSIVE SeqOfSet(_)
SeqOfSet(S) ==
    IF S = {} THEN <<>>
    ELSE LET x == CHOOSE x \in S : TRUE IN <<x>> \o SeqOfSet(S \ {x})

\* All sequences over S without repetition, of length 1..n
InjSeqs(S, n) ==
    UNION {{s \in [1..k -> S] : \A i, j \in 1..k : i # j => s[i] # s[j]} : k \in 1..n}

-----------------------------------------------------------------------------
(* Statuses and StateManager._derive_status *)

Statuses == {"PENDING", "IN_PROGRESS", "COMPLETED", "FAILED", "PARTIAL_FAILURE", "UNKNOWN"}

\* A faulty variant: PARTIAL_FAILURE only for exactly {COMPLETED, FAILED}
DeriveExactMix(S) ==
    IF S = {} THEN "UNKNOWN"
    ELSE IF S = {"COMPLETED"} THEN "COMPLETED"
    ELSE IF S = {"FAILED"} THEN "FAILED"
    ELSE IF "PENDING" \in S \/ "IN_PROGRESS" \in S THEN "IN_PROGRESS"
    ELSE IF S = {"COMPLETED", "FAILED"} THEN "PARTIAL_FAILURE"
    ELSE "IN_PROGRESS"

\* _derive_status(statuses) on status_set = set(statuses)
Derive(S) ==
    IF S = {} THEN "UNKNOWN"
    ELSE IF S = {"COMPLETED"} THEN "COMPLETED"
    ELSE IF S = {"FAILED"} THEN "FAILED"
    ELSE IF "PENDING" \in S \/ "IN_PROGRESS" \in S THEN "IN_PROGRESS"
    ELSE IF "COMPLETED" \in S /\ "FAILED" \in S THEN "PARTIAL_FAILURE"
    ELSE "IN_PROGRESS"

-----------------------------------------------------------------------------
(* The operations table (state_manager.py) *)

None == 0 - 1                 \* Python None for an optional integer
NoSizes == <<>>               \* a node_group dict without size fields
NoError == ""                 \* error_message absent

MetaKey(op) == <<op, "META">>
ClusterKey(op, cid) == <<op, "CLUSTER", cid>>
NgKey(op, cid, name) == <<op, "NG", cid, name>>

IsClusterKey(k, op) == Len(k) = 3 /\ k[1] = op /\ k[2] = "CLUSTER"
IsNgKey(k, op) == Len(k) = 4 /\ k[1] = op /\ k[2] = "NG"

\* ng.get("desired_size", 0), ng.get("min_size", 0), ng.get("max_size", 0)
OrigSizes(ng) == IF ng.sizes = NoSizes THEN <<0, 0, 0>> ELSE ng.sizes

\* updated_at: AtCreation while it is the created_at that create_operation
\* wrote, Later once an UpdateItem has set it to a later now
AtCreation == "created_at"
Later == "later"

\* expires_at = int(time.time()) + (30 * 86400), read once per create_operation
ExpiresAt(now) == now + (30 * 86400)

MetaItem(op, action, clusters) ==
    [key |-> MetaKey(op),
     row |-> [status |-> "IN_PROGRESS", action |-> action,
              updated_at |-> AtCreation, expires_at |-> ExpiresAt(clock),
              total_clusters |-> Len(clusters),
              total_nodegroups |->
                  SumSeq([i \in 1..Len(clusters) |-> Len(clusters[i].node_groups)])]]

ClusterItem(op, c) ==
    [key |-> ClusterKey(op, c.cluster_id),
     row |-> [status |-> "PENDING", total_nodegroups |-> Len(c.node_groups),
              updated_at |-> AtCreation, expires_at |-> ExpiresAt(clock)]]

NgItem(op, action, c, ng) ==
    [key |-> NgKey(op, c.cluster_id, ng.name),
     row |-> [status |-> "PENDING", action |-> action,
              original |-> OrigSizes(ng),
              current_desired |-> OrigSizes(ng)[1],
              retry_count |-> 0,
              error_message |-> NoError,
              updated_at |-> AtCreation, expires_at |-> ExpiresAt(clock)]]

\* The items list built by create_operation, in order
Items(op, action, clusters) ==
    <<MetaItem(op, action, clusters)>> \o
    Flatten([i \in 1..Len(clusters) |->
        <<ClusterItem(op, clusters[i])>> \o
        [j \in 1..Len(clusters[i].node_groups) |->
            NgItem(op, action, clusters[i], clusters[i].node_groups[j])]])

\* boto3 batch_writer sends the buffered puts in requests of this many items
FlushAmount == 25

ChunkHasDup(c) == \E i, j \in 1..Len(c) : i # j /\ c[i].key = c[j].key

\* The puts of one request; its keys are distinct (see ChunkHasDup)
PutAll(t, c) ==
    [k \in DOMAIN t \cup {c[i].key : i \in 1..Len(c)} |->
        IF \E i \in 1..Len(c) : c[i].key = k
        THEN c[CHOOSE i \in 1..Len(c) : c[i].key = k].row
        ELSE t[k]]

\* with self._table.batch_writer() as batch: for item in items: batch.put_item
\* One BatchWriteItem request per FlushAmount items; the store rejects a request
\* that names a key twice (ValidationException), earlier requests stay written.
RECURSIVE BatchWrite(_, _)
BatchWrite(t, items) ==
    IF items = <<>> THEN [t |-> t, ok |-> TRUE]
    ELSE LET n == Min2(FlushAmount, Len(items))
             c == SubSeq(items, 1, n)
         IN  IF ChunkHasDup(c) THEN [t |-> t, ok |-> FALSE]
             ELSE BatchWrite(PutAll(t, c), SubSeq(items, n + 1, Len(items)))

\* create_operation: [t |-> the table afterwards, ok |-> it returned (did not raise)]
create_operation(t, op, action, clusters) ==
    BatchWrite(t, Items(op, action, clusters))

\* A faulty variant: retry_count goes up with every update
PatchNgCountsAll(t, op, cid, name, status, err, cur) ==
    [t EXCEPT ![NgKey(op, cid, name)] =
        [@ EXCEPT !.status = status,
                  !.updated_at = Later,
                  !.error_message = IF err # NoError THEN err ELSE @,
                  !.current_desired = IF cur # None THEN cur ELSE @,
                  !.retry_count = @ + 1]]

\* update_nodegroup_status, first store call: the UpdateItem on the NG row
PatchNg(t, op, cid, name, status, err, cur) ==
    [t EXCEPT ![NgKey(op, cid, name)] =
        [@ EXCEPT !.status = status,
                  !.updated_at = Later,
                  !.error_message = IF err # NoError THEN err ELSE @,
                  !.current_desired = IF cur # None THEN cur ELSE @,
                  !.retry_count = IF status = "FAILED" THEN @ + 1 ELSE @]]

\* get_cluster_nodegroups mapped to [ng.get("status", "")]: the set of statuses
ClusterNgStatuses(t, op, cid) ==
    {t[k].status : k \in {k \in DOMAIN t : IsNgKey(k, op) /\ k[3] = cid}}

\* get_operation_clusters mapped to [c.get("status", "")]
OpClusterStatuses(t, op) ==
    {t[k].status : k \in {k \in DOMAIN t : IsClusterKey(k, op)}}

\* UpdateItem SET #status = :status, updated_at = :now on an existing CLUSTER /
\* META row
SetStatus(t, key, status) ==
    [t EXCEPT ![key] = [@ EXCEPT !.status = status, !.updated_at = Later]]

\* _update_cluster_status
UpdateClusterStatus(t, op, cid) ==
    SetStatus(t, ClusterKey(op, cid), Derive(ClusterNgStatuses(t, op, cid)))

\* _update_meta_status
UpdateMetaStatus(t, op) ==
    SetStatus(t, MetaKey(op), Derive(OpClusterStatuses(t, op)))

\* update_nodegroup_status run without interruption
update_nodegroup_status(t, op, cid, name, status, err, cur) ==
    UpdateMetaStatus(
        UpdateClusterStatus(PatchNg(t, op, cid, name, status, err, cur), op, cid),
        op)

NgRows(t, op) == {k \in DOMAIN t : IsNgKey(k, op)}
ClusterRows(t, op) == {k \in DOMAIN t : IsClusterKey(k, op)}
EmptyTable == [k \in {} |-> 0]

-----------------------------------------------------------------------------
(* SpecDerive: _derive_status applied to every short list of statuses *)

MaxChildren == 3

StatusLists == UNION {[1..n -> Statuses] : n \in 0..MaxChildren}

DeriveCall ==
    /\ dOut = ""
    /\ dOut' = Derive(Range(dIn))
    /\ UNCHANGED <<dIn, table, nextOp, created, nUpd, workerVars, lockVars, extVars>>

-----------------------------------------------------------------------------
(* SpecLock: acquire_idempotency_lock *)

LockKeys == {"k1", "k2"}
Callers == {"p1", "p2"}
TtlValues == {1, 2}           \* ttl_seconds, in model time units
MaxTime == 3
MaxAcquires == 3

LockIdle == [pc |-> "idle", key |-> "", now |-> 0, ttl |-> 0]

\* A faulty variant: the put carries no ConditionExpression
LockConditionNone(expires, now) == TRUE

\* A faulty variant: an acquire at exactly expires_at succeeds
LockConditionLe(expires, now) == expires = None \/ expires <= now

\* ConditionExpression "attribute_not_exists(PK) OR expires_at < :now"
LockCondition(expires, now) == expires = None \/ expires < now

\* now = int(time.time()); expires = now + ttl_seconds
LockBegin(p, key, ttl) ==
    /\ lcall[p].pc = "idle"
    /\ Len(lockLog) + Cardinality({q \in Callers : lcall[q].pc = "put"}) < MaxAcquires
    /\ lcall' = [lcall EXCEPT ![p] = [pc |-> "put", key |-> key, now |-> clock, ttl |-> ttl]]
    /\ UNCHANGED <<locks, clock, lockLog>>
    /\ UNCHANGED <<table, nextOp, created, nUpd, workerVars, deriveVars, extVars>>

\* put_item with the condition; True, or False on ConditionalCheckFailedException
LockPut(p) ==
    /\ lcall[p].pc = "put"
    /\ LET f == lcall[p]
           ok == LockCondition(locks[f.key], f.now)
       IN  /\ locks' = IF ok THEN [locks EXCEPT ![f.key] = f.now + f.ttl] ELSE locks
           /\ lockLog' = Append(lockLog, [key |-> f.key, now |-> f.now,
                                          ttl |-> f.ttl, ok |-> ok])
    /\ lcall' = [lcall EXCEPT ![p] = LockIdle]
    /\ UNCHANGED clock
    /\ UNCHANGED <<table, nextOp, created, nUpd, workerVars, deriveVars, extVars>>

\* put_item raises another ClientError: nothing is written, the error propagates
LockPutRaises(p) ==
    /\ lcall[p].pc = "put"
    /\ lcall' = [lcall EXCEPT ![p] = LockIdle]
    /\ UNCHANGED <<locks, clock, lockLog>>
    /\ UNCHANGED <<table, nextOp, created, nUpd, workerVars, deriveVars, extVars>>

Tick ==
    /\ clock < MaxTime
    /\ clock' = clock + 1
    /\ UNCHANGED <<locks, lcall, lockLog>>
    /\ UNCHANGED <<table, nextOp, created, nUpd, workerVars, deriveVars, extVars>>

-----------------------------------------------------------------------------
(* SpecCreate: create_operation on arbitrary cluster lists, then              *)
(* update_nodegroup_status calls applied one at a time                        *)

ClusterIds == {"c1", "c2"}
LongLen == 24                 \* length of the long node_group lists
MaxClusters == 2
MaxCreateOps == 1
MaxUpdates == 3
MaxUpdName == 2               \* updates address nodegroups named 1..MaxUpdName

DistinctNames(n) == [i \in 1..n |-> i]
DupLastNames(n) == [i \in 1..n |-> IF i = n THEN 1 ELSE i]

NameLists == {DistinctNames(0), DistinctNames(1), DistinctNames(2), DupLastNames(2),
              DistinctNames(LongLen), DupLastNames(LongLen)}

NgDicts(names) == [i \in 1..Len(names) |-> [name |-> names[i], sizes |-> <<1, 1, 2>>]]

ClusterDicts == {[cluster_id |-> c, node_groups |-> NgDicts(l)] :
                     c \in ClusterIds, l \in NameLists}

ClusterLists == UNION {[1..n -> ClusterDicts] : n \in 0..MaxClusters}

\* The nodegroup ids fan_out_operation publishes for a cluster list
PublishedNgIds(clusters) ==
    UNION {{<<clusters[i].cluster_id, clusters[i].node_groups[j].name>> :
                j \in 1..Len(clusters[i].node_groups)} : i \in 1..Len(clusters)}

CreateOpDo(action, clusters) ==
    /\ LET op == nextOp + 1
           r == create_operation(table, op, action, clusters)
       IN  /\ table' = r.t
           /\ created' = Append(created, [clusters |-> clusters, ok |-> r.ok])
           /\ nextOp' = op
    /\ UNCHANGED <<nUpd, workerVars, lockVars, deriveVars, extVars>>

CreateOp(action, clusters) ==
    /\ nextOp < MaxCreateOps
    /\ CreateOpDo(action, clusters)

\* One whole update_nodegroup_status call, as a worker makes it for a message of
\* an operation that was created and fanned out.
UpdateNg(op, ngid, status) ==
    /\ nUpd < MaxUpdates
    /\ op \in 1..nextOp
    /\ created[op].ok
    /\ ngid \in PublishedNgIds(created[op].clusters)
    /\ ngid[2] <= MaxUpdName
    /\ table' = update_nodegroup_status(table, op, ngid[1], ngid[2], status,
                    IF status = "FAILED" THEN "boom" ELSE NoError,
                    IF status = "FAILED" THEN None ELSE 0)
    /\ nUpd' = nUpd + 1
    /\ UNCHANGED <<nextOp, created, workerVars, lockVars, deriveVars, extVars>>

-----------------------------------------------------------------------------
(* Cluster tags and the filters of _discover_account_clusters (discovery.py) *)

\* A cluster's tags are a dict: <<key, value>> pairs with distinct keys, in the
\* order the EKS API lists them
TagKeys == {"env", "Environment", "team"}
TagValues == {"prod", "Production", "dev"}
MaxTags == 3

\* str.lower() on the strings that occur as tag keys and values
Lower(s) ==
    CASE s = "Environment" -> "environment"
      [] s = "Production" -> "production"
      [] OTHER -> s

TagLists ==
    {<<>>} \cup
    UNION {{[i \in 1..Len(ks) |-> <<ks[i], vs[i]>>] : vs \in [1..Len(ks) -> TagValues]} :
              ks \in InjSeqs(TagKeys, MaxTags)}

NoFilter == <<>>
LabelFilters == {NoFilter, <<<<"team", "dev">>>>, <<<<"env", "dev">>>>}

\* tags.get(key, default)
TagGet(tags, key, default) ==
    IF \E i \in 1..Len(tags) : tags[i][1] = key
    THEN tags[CHOOSE i \in 1..Len(tags) : tags[i][1] = key][2]
    ELSE default

\* next((k for k in tags if k.lower() in ("env", "environment")), None): the
\* first such key in the dict's order ("" for None)
EnvKey(tags) ==
    LET hits == {i \in 1..Len(tags) : Lower(tags[i][1]) \in {"env", "environment"}}
    IN  IF hits = {} THEN "" ELSE tags[CHOOSE i \in hits : \A j \in hits : i <= j][1]

\* env_tag = tags.get(env_key, "").lower() if env_key else ""
EnvTag(tags) ==
    IF EnvKey(tags) = "" THEN "" ELSE Lower(TagGet(tags, EnvKey(tags), ""))

\* The safety filter: the cluster is skipped
ProdGuardDrops(tags) == EnvTag(tags) \in {"prod", "production"}

\* _matches_labels: every key of the filter has the filter's value in the tags
MatchesLabels(tags, label_filter) ==
    \A i \in 1..Len(label_filter) :
        TagGet(tags, label_filter[i][1], "") = label_filter[i][2]

\* The cluster passes both filters and is appended to the result
PassesDiscovery(tags, label_filter) ==
    /\ ~ProdGuardDrops(tags)
    /\ (label_filter = NoFilter \/ MatchesLabels(tags, label_filter))

\* discover_clusters(label_filter) over an account holding one cluster
DiscoverOne ==
    /\ gOut = ""
    /\ gOut' = IF PassesDiscovery(gIn.tags, gIn.label_filter) THEN "returned" ELSE "dropped"
    /\ UNCHANGED <<gIn, ctags, moreVars, schedVars, fo, snap, table, nextOp, created, nUpd,
                   workerVars, lockVars, deriveVars>>

GuardRest == gIn = [tags |-> <<>>, label_filter |-> NoFilter] /\ gOut = ""

-----------------------------------------------------------------------------
(* The fleet, the baseline store and the capacity controller *)

\* The fleet is the set of ASGs that exist: DOMAIN asg, keyed by
\* <<cluster_id, nodegroup name>>; ctags holds the tags of its clusters.
FleetOne == {<<"c1", 1>>}
FleetTwo == {<<"c1", 1>>, <<"c1", 2>>}

FleetClusters(a) == {k[1] : k \in DOMAIN a}

\* The tags of a cluster that opted in to stop operations
AutoStopTags == <<<<"auto_stop", "true">>>>

InitSizes == {<<2, 1, 3>>, <<0, 0, 3>>}       \* <<desired, min, max>>
ScaleTargets == {<<1, 1, 2>>, <<None, None, 4>>}
NoTarget == <<None, None, None>>

\* What the Auto Scaling API accepts: 0 <= min <= desired <= max
ValidSizes(z) == 0 <= z[2] /\ z[2] <= z[1] /\ z[1] <= z[3]

MaxSize == 2
TripSizes == {z \in (0..MaxSize) \X (0..MaxSize) \X (0..MaxSize) : ValidSizes(z)}

DiscoveredNodeGroups(a, cid) ==
    LET names == SeqOfSet({k[2] : k \in {q \in DOMAIN a : q[1] = cid}})
    IN  [j \in 1..Len(names) |-> [name |-> names[j], sizes |-> a[<<cid, names[j]>>]]]

\* asg_tags.get("eks-operator/skip")
SkipTag(k) == IF k \in DOMAIN atags THEN atags[k] ELSE ""

\* A faulty variant: the skip tag is not looked at
SkippedNever(k) == FALSE

\* if asg_tags.get("eks-operator/skip") == "true": continue
Skipped(k) == SkipTag(k) = "true"

\* _discover_auto_scaling_groups: the ASGs of the cluster without the skipped
KeptNodeGroups(a, cid) ==
    SelectSeq(DiscoveredNodeGroups(a, cid), LAMBDA ng : ~Skipped(<<cid, ng.name>>))

\* discover_clusters(label_filter): the clusters that pass the filters;
\* node_groups carry the sizes the ASGs have right now
Discovered(a, tg, label_filter) ==
    LET cids == SeqOfSet({c \in FleetClusters(a) : PassesDiscovery(tg[c], label_filter)})
    IN  [i \in 1..Len(cids) |->
            [cluster_id |-> cids[i], tags |-> tg[cids[i]],
             node_groups |-> KeptNodeGroups(a, cids[i])]]

\* stop_operation and trigger_schedule_operation("stop"): only clusters tagged
\* auto_stop=true
Stoppable(clusters) ==
    SelectSeq(clusters, LAMBDA c : TagGet(c.tags, "auto_stop", "") = "true")

\* A faulty variant: the put carries no ConditionExpression
save_baseline_overwrite(b, key, sizes) ==
    [b |-> [b EXCEPT ![key] = sizes], ret |-> TRUE]

\* ClusterBaseline.save_baseline: put_item under attribute_not_exists(cluster_id)
save_baseline(b, key, sizes) ==
    IF b[key] = NoSizes
    THEN [b |-> [b EXCEPT ![key] = sizes], ret |-> TRUE]
    ELSE [b |-> b, ret |-> FALSE]

\* ClusterBaseline.get_baseline: the item, or None (here NoSizes)
get_baseline(b, key) == b[key]

\* ClusterBaseline.delete_baseline: unconditional delete_item
delete_baseline(b, key) == [b EXCEPT ![key] = NoSizes]

\* stop_nodegroup: already at zero (SKIPPED) when desired = 0 and min = 0
AlreadyAtZero(seen) == seen[1] = 0 /\ seen[2] = 0

\* A faulty variant: the stop also takes the maximum down
StopSizesMaxZero(seen) == <<0, 0, 0>>

\* stop_nodegroup: MinSize=0, DesiredCapacity=0, MaxSize=original_max
StopSizes(seen) == <<0, 0, seen[3]>>

\* A faulty variant: the start restores the baseline's min as desired capacity
StartSizesMinAsDesired(saved, ng) ==
    IF saved = NoSizes THEN <<ng[2], ng[2], ng[3]>> ELSE <<saved[2], saved[2], saved[3]>>

\* The worker's start branch: the baseline's sizes, or without a baseline
\* <<ng.min_size, ng.min_size, ng.max_size>>
StartSizes(saved, ng) ==
    IF saved = NoSizes THEN <<ng[2], ng[2], ng[3]>> ELSE saved

\* scale_nodegroup: only the fields provided are sent
ScaleSizes(cur, target) ==
    [i \in 1..3 |-> IF target[i] # None THEN target[i] ELSE cur[i]]

-----------------------------------------------------------------------------
(* Dispatcher: the API handlers and the schedule trigger *)

MaxOps == 2

\* A faulty variant: a target of 0 is taken for an absent one
IntOrNoneTruthy(v) == IF v # None /\ v # 0 THEN v ELSE None

\* int(ng.get("target_desired")) if ng.get("target_desired") is not None else None
IntOrNone(v) == IF v # None THEN v ELSE None

\* target_desired, target_min, target_max of a message
MessageTarget(target) == [i \in 1..3 |-> IntOrNone(target[i])]

\* fan_out_operation: one message per node_group of each cluster
FanOut(op, action, clusters, target) ==
    UNION {{[op |-> op, action |-> action, cid |-> clusters[i].cluster_id,
             name |-> clusters[i].node_groups[j].name,
             target |-> MessageTarget(target), rc |-> 1] :
                j \in 1..Len(clusters[i].node_groups)} : i \in 1..Len(clusters)}

\* start_operation: the cluster list rebuilt from the source operation's rows,
\* node_groups carrying names only
SourceNodeGroups(t, src, cid) ==
    LET names == SeqOfSet({k[4] : k \in {q \in NgRows(t, src) : q[3] = cid}})
    IN  [j \in 1..Len(names) |-> [name |-> names[j], sizes |-> NoSizes]]

SourceClusters(t, src) ==
    LET cids == SeqOfSet({k[3] : k \in ClusterRows(t, src)})
    IN  [i \in 1..Len(cids) |->
            [cluster_id |-> cids[i], tags |-> <<>>,
             node_groups |-> SourceNodeGroups(t, src, cids[i])]]

\* create_operation, then fan_out_operation; by is the operation's initiated_by
DispatchDo(action, clusters, target, by) ==
    LET op == nextOp + 1
        r == create_operation(table, op, action, clusters)
    IN  /\ table' = r.t
        /\ created' = Append(created, [clusters |-> clusters, ok |-> r.ok, by |-> by,
                                       action |-> action, target |-> target])
        /\ queue' = IF r.ok THEN queue \cup FanOut(op, action, clusters, target)
                    ELSE queue
        /\ nextOp' = op

Dispatch(action, clusters, target, by) ==
    /\ nextOp < MaxOps
    /\ DispatchDo(action, clusters, target, by)
    /\ UNCHANGED <<asg0, baseline, asg, wk, nUpd, lockVars, deriveVars, extVars>>

\* POST /operation/stop: 404 when no cluster is eligible
ApiStop ==
    LET stoppable == Stoppable(Discovered(asg, ctags, NoFilter))
    IN  stoppable # <<>> /\ Dispatch("stop", stoppable, NoTarget, "api")

\* POST /operation/start with source_operation_id = src
ApiStart(src) ==
    /\ MetaKey(src) \in DOMAIN table
    /\ table[MetaKey(src)].action = "stop"
    /\ Dispatch("start", SourceClusters(table, src), NoTarget, "api")

\* trigger_schedule_operation(schedule, "scale") for a schedule whose target
\* has no "type" key: target.get("type", "label_filter") with
\* target.get("label_filter", {}), so discover_clusters({}); the schedule's
\* sizes go onto every node_group
TriggerScale(target) ==
    LET clusters == Discovered(asg, ctags, NoFilter)
    IN  clusters # <<>> /\ Dispatch("scale", clusters, target, "schedule")

\* _resolve_explicit_clusters: every referenced cluster that can be described,
\* whatever its tags
ResolveExplicit(a, tg, refs) ==
    LET cids == SeqOfSet(refs \cap FleetClusters(a))
    IN  [i \in 1..Len(cids) |->
            [cluster_id |-> cids[i], tags |-> tg[cids[i]],
             node_groups |-> DiscoveredNodeGroups(a, cids[i])]]

\* trigger_schedule_operation(schedule, "scale") for a target dict with
\* type = "explicit" and clusters = refs
TriggerExplicit(refs, target) ==
    LET clusters == ResolveExplicit(asg, ctags, refs)
    IN  clusters # <<>> /\ Dispatch("scale", clusters, target, "schedule")

-----------------------------------------------------------------------------
(* fan_out_operation (operation_router.py), one sns publish per step *)

\* The node_groups of the clusters in the order of the two loops
FanOutOrder(clusters) ==
    Flatten([i \in 1..Len(clusters) |->
                [j \in 1..Len(clusters[i].node_groups) |->
                    <<clusters[i].cluster_id, clusters[i].node_groups[j].name>>]])

FoIdle == [pc |-> "idle", clusters |-> <<>>, i |-> 0, published |-> <<>>,
           ret |-> [clusters_count |-> None, nodegroups_count |-> None]]

\* sns_client.publish returns: nodegroups_count += 1
PublishOk ==
    /\ fo.pc = "publish"
    /\ fo.i <= Len(FanOutOrder(fo.clusters))
    /\ fo' = [fo EXCEPT !.published = Append(@, FanOutOrder(fo.clusters)[fo.i]),
                        !.i = @ + 1]
    /\ UNCHANGED <<ctags, moreVars, guardVars, schedVars, snap, table, nextOp, created, nUpd,
                   workerVars, lockVars, deriveVars>>

\* sns_client.publish raises: no handler in fan_out_operation, the exception
\* leaves the function
PublishRaises ==
    /\ fo.pc = "publish"
    /\ fo.i <= Len(FanOutOrder(fo.clusters))
    /\ fo' = [fo EXCEPT !.pc = "raised"]
    /\ UNCHANGED <<ctags, moreVars, guardVars, schedVars, snap, table, nextOp, created, nUpd,
                   workerVars, lockVars, deriveVars>>

\* Both loops are over: return {clusters_count, nodegroups_count}
FanOutReturn ==
    /\ fo.pc = "publish"
    /\ fo.i > Len(FanOutOrder(fo.clusters))
    /\ fo' = [fo EXCEPT !.pc = "returned",
                        !.ret = [clusters_count |-> Len(fo.clusters),
                                 nodegroups_count |-> Len(fo.published)]]
    /\ UNCHANGED <<ctags, moreVars, guardVars, schedVars, snap, table, nextOp, created, nUpd,
                   workerVars, lockVars, deriveVars>>

FanRest == fo = FoIdle

-----------------------------------------------------------------------------
(* ScheduleManager (schedule_manager.py): schedule rows and mapping rows *)

MaxSchedules == 2
SchedIds == 1..MaxSchedules
SchedTargets == FleetTwo            \* <<cluster_id, nodegroup_name>> of the target dict
Managers == {"m1", "m2"}            \* concurrent API requests

EveryMinute == "* * * * *"
MinuteOne == "1 * * * *"
Crons == {EveryMinute, MinuteOne}
SchedSizes == <<1, 1, 2>>           \* desired_capacity, min_size, max_size

\* No item under the key
NoRow == [target |-> <<>>, enabled |-> "", paused_until |-> None, recurrence |-> "",
          sizes |-> NoSizes]

MgIdle == [pc |-> "idle", id |-> 0, target |-> <<>>, recurrence |-> "",
           existing |-> None, ret |-> ""]

\* uuid4(): an id no row and no call in progress carries
UsedIds ==
    {i \in SchedIds : sched[i] # NoRow} \cup
    {mg[c].id : c \in {d \in Managers : mg[d].pc # "idle"}}

\* A faulty variant: a mapping never refuses a create
CollisionNever(existing_schedule) == FALSE

\* create_schedule: the mapped schedule exists and is enabled
Collision(existing_schedule) ==
    existing_schedule # NoRow /\ existing_schedule.enabled = "true"

SetMg(c, f) == mg' = [mg EXCEPT ![c] = f]

\* create_schedule up to the get_item on the mapping row (valid recurrence and
\* target)
CreateBegin(c, target, recurrence) ==
    /\ mg[c].pc = "idle"
    /\ SchedIds \ UsedIds # {}
    /\ LET id == CHOOSE i \in SchedIds \ UsedIds : \A j \in SchedIds \ UsedIds : i <= j
       IN  SetMg(c, [MgIdle EXCEPT !.pc = "readmap", !.id = id, !.target = target,
                                   !.recurrence = recurrence])
    /\ UNCHANGED <<sched, asgmap, execs, pl, trig, ctags, moreVars, guardVars, fo, snap, table,
                   nextOp, created, nUpd, workerVars, lockVars, deriveVars>>

\* get_item(ASG_MAP#nodegroup_id)
CreateReadMap(c) ==
    /\ mg[c].pc = "readmap"
    /\ SetMg(c, [mg[c] EXCEPT !.existing = asgmap[mg[c].target],
                              !.pc = IF asgmap[mg[c].target] = None THEN "put"
                                     ELSE "readsched"])
    /\ UNCHANGED <<sched, asgmap, execs, pl, trig, ctags, moreVars, guardVars, fo, snap, table,
                   nextOp, created, nUpd, workerVars, lockVars, deriveVars>>

\* get_schedule(existing_id): ValueError when it exists and is enabled
CreateReadSched(c) ==
    /\ mg[c].pc = "readsched"
    /\ SetMg(c, IF Collision(sched[mg[c].existing])
                THEN [mg[c] EXCEPT !.pc = "idle", !.ret = "error"]
                ELSE [mg[c] EXCEPT !.pc = "put"])
    /\ UNCHANGED <<sched, asgmap, execs, pl, trig, ctags, moreVars, guardVars, fo, snap, table,
                   nextOp, created, nUpd, workerVars, lockVars, deriveVars>>

\* put_item of the schedule row, enabled = "true"
CreatePutSchedule(c) ==
    /\ mg[c].pc = "put"
    /\ sched' = [sched EXCEPT ![mg[c].id] =
                     [target |-> mg[c].target, enabled |-> "true", paused_until |-> None,
                      recurrence |-> mg[c].recurrence, sizes |-> SchedSizes]]
    /\ SetMg(c, [mg[c] EXCEPT !.pc = "putmap"])
    /\ UNCHANGED <<asgmap, execs, pl, trig, ctags, moreVars, guardVars, fo, snap, table,
                   nextOp, created, nUpd, workerVars, lockVars, deriveVars>>

\* put_item of the mapping row, unconditional
CreatePutMapping(c) ==
    /\ mg[c].pc = "putmap"
    /\ asgmap' = [asgmap EXCEPT ![mg[c].target] = mg[c].id]
    /\ SetMg(c, [mg[c] EXCEPT !.pc = "idle", !.ret = "created"])
    /\ UNCHANGED <<sched, execs, pl, trig, ctags, moreVars, guardVars, fo, snap, table,
                   nextOp, created, nUpd, workerVars, lockVars, deriveVars>>

\* A faulty variant: the value is stored as Python prints it
update_enabled_str(sc, id, value) ==
    [sc EXCEPT ![id].enabled = IF value THEN "True" ELSE "False"]

\* update_schedule(schedule_id, {"enabled": value}): one UpdateItem setting the
\* fields passed, on a schedule that exists
update_enabled(sc, id, value) ==
    [sc EXCEPT ![id].enabled = IF value THEN "true" ELSE "false"]

\* PUT /schedules/{id} with enabled = value
UpdateEnabled(id, value) ==
    /\ sched[id] # NoRow
    /\ sched' = update_enabled(sched, id, value)
    /\ UNCHANGED <<asgmap, execs, mg, pl, trig, ctags, moreVars, guardVars, fo, snap, table,
                   nextOp, created, nUpd, workerVars, lockVars, deriveVars>>

\* DELETE /schedules/{id}: delete_schedule = update_schedule({"enabled": False})
DeleteSchedule(id) ==
    /\ sched[id] # NoRow
    /\ sched' = update_enabled(sched, id, FALSE)
    /\ UNCHANGED <<asgmap, execs, mg, pl, trig, ctags, moreVars, guardVars, fo, snap, table,
                   nextOp, created, nUpd, workerVars, lockVars, deriveVars>>

\* pause_schedule(id, until): enabled = False, and paused_until when until is given
pause_schedule(sc, id, until) ==
    [sc EXCEPT ![id].enabled = "false",
               ![id].paused_until = IF until # None THEN until ELSE @]

\* POST /schedules/{id}/pause
PauseSchedule(id, until) ==
    /\ sched[id] # NoRow
    /\ sched' = pause_schedule(sched, id, until)
    /\ UNCHANGED <<asgmap, execs, mg, pl, trig, ctags, moreVars, guardVars, fo, snap, table,
                   nextOp, created, nUpd, workerVars, lockVars, deriveVars>>

\* update_schedule, delete_schedule and pause_schedule with a schedule_id under
\* which no CONFIG row exists: neither the endpoints nor update_schedule read
\* the row first, and the UpdateItem carries no condition, so it writes an item
\* holding the fields passed
UpdateUnknown(id, value) ==
    /\ sched[id] = NoRow
    /\ sched' = update_enabled(sched, id, value)
    /\ UNCHANGED <<asgmap, execs, mg, pl, trig, ctags, moreVars, guardVars, fo, snap, table,
                   nextOp, created, nUpd, workerVars, lockVars, deriveVars>>

DeleteUnknown(id) ==
    /\ sched[id] = NoRow
    /\ sched' = update_enabled(sched, id, FALSE)
    /\ UNCHANGED <<asgmap, execs, mg, pl, trig, ctags, moreVars, guardVars, fo, snap, table,
                   nextOp, created, nUpd, workerVars, lockVars, deriveVars>>

PauseUnknown(id, until) ==
    /\ sched[id] = NoRow
    /\ sched' = pause_schedule(sched, id, until)
    /\ UNCHANGED <<asgmap, execs, mg, pl, trig, ctags, moreVars, guardVars, fo, snap, table,
                   nextOp, created, nUpd, workerVars, lockVars, deriveVars>>

-----------------------------------------------------------------------------
(* Schedule poller (schedule_poller.py), one store, clock or cloud call per   *)
(* step                                                                       *)

Pollers == {"q1", "q2"}             \* concurrent invocations of the handler
MaxPolls == 2                       \* invocations started in all
TicksPerMinute == 2                 \* clock units in one minute

\* acquire_idempotency_lock's default ttl_seconds = 120
DefaultTtl == 2 * TicksPerMinute

\* now.strftime("%Y-%m-%dT%H:%M")
Minute(t) == t \div TicksPerMinute

Minutes == 0..Minute(MaxTime)
PollLockKeys == SchedIds \X Minutes

\* is_triggered: the recurrence fires in the minute of the clock
CronMatches(recurrence, minute) ==
    \/ recurrence = EveryMinute
    \/ recurrence = MinuteOne /\ minute % 60 = 1

\* cmin: the minute is_triggered evaluated for the current schedule; errors:
\* error_count; triggered: triggered_count; ops: the operations the invocation
\* created; failed: the calls that raised; ret: how the invocation ended
PlIdle == [pc |-> "idle", now |-> 0, list |-> <<>>, i |-> 0, lnow |-> 0, op |-> None,
           end |-> 0, runs |-> 0, held |-> {}, due |-> {}, cmin |-> None,
           errors |-> 0, triggered |-> 0, ops |-> 0, failed |-> 0, ret |-> ""]

PollsStarted == SumSeq([j \in 1..Cardinality(Pollers) |->
                          LET f == pl[SeqOfSet(Pollers)[j]]
                          IN  f.runs + (IF f.pc = "idle" THEN 0 ELSE 1)])

\* list_schedules(enabled_only=True): the index query on enabled = "true"
EnabledSchedules(sc) ==
    LET ids == SeqOfSet({i \in SchedIds : sc[i].enabled = "true"})
    IN  [j \in 1..Len(ids) |-> [id |-> ids[j], row |-> sc[ids[j]]]]

\* Schedules that are paused with a timer that runs beyond t
HeldAt(sc, t) ==
    {i \in SchedIds : /\ sc[i].enabled = "false"
                      /\ sc[i].paused_until # None /\ t < sc[i].paused_until}

\* Schedules that are paused with a timer that ran out before t
DueAt(sc, t) ==
    {i \in SchedIds : /\ sc[i].enabled = "false"
                      /\ sc[i].paused_until # None /\ sc[i].paused_until < t}

SetPl(p, f) == pl' = [pl EXCEPT ![p] = f]

\* The loop goes on with the next schedule, or the handler returns
PollAdvance(f) ==
    [f EXCEPT !.i = @ + 1, !.pc = IF f.i + 1 <= Len(f.list) THEN "pause" ELSE "return",
              !.cmin = None]

\* now = datetime.now(timezone.utc); minute_key. The frame also notes which
\* schedules are paused at this moment (held, due), for stating properties
PollStart(p) ==
    /\ pl[p].pc = "idle"
    /\ PollsStarted < MaxPolls
    /\ SetPl(p, [PlIdle EXCEPT !.pc = "list", !.now = clock, !.runs = pl[p].runs,
                               !.held = HeldAt(sched, clock),
                               !.due = DueAt(sched, clock)])
    /\ UNCHANGED <<sched, asgmap, execs, mg, trig, ctags, moreVars, guardVars, fo, snap, table,
                   nextOp, created, nUpd, workerVars, lockVars, deriveVars>>

\* schedules = list_schedules(enabled_only=True)
PollList(p) ==
    /\ pl[p].pc = "list"
    /\ LET l == EnabledSchedules(sched)
       IN  SetPl(p, [pl[p] EXCEPT !.list = l, !.i = 1,
                                  !.pc = IF l = <<>> THEN "return" ELSE "pause"])
    /\ UNCHANGED <<sched, asgmap, execs, mg, trig, ctags, moreVars, guardVars, fo, snap, table,
                   nextOp, created, nUpd, workerVars, lockVars, deriveVars>>

\* The paused_until check of the listed item: skip while now < paused_until,
\* else update_schedule(schedule_id, {"enabled": True})
PollPause(p) ==
    /\ pl[p].pc = "pause"
    /\ LET f == pl[p]
           s == f.list[f.i]
       IN  IF s.row.paused_until = None
           THEN SetPl(p, [f EXCEPT !.pc = "cron"]) /\ UNCHANGED sched
           ELSE IF f.now < s.row.paused_until
           THEN SetPl(p, PollAdvance(f)) /\ UNCHANGED sched
           ELSE /\ sched' = update_enabled(sched, s.id, TRUE)
                /\ SetPl(p, [f EXCEPT !.pc = "cron"])
    /\ UNCHANGED <<asgmap, execs, mg, trig, ctags, moreVars, guardVars, fo, snap, table,
                   nextOp, created, nUpd, workerVars, lockVars, deriveVars>>

\* if recurrence and is_triggered(recurrence, tz_name), which reads the clock
PollCron(p) ==
    /\ pl[p].pc = "cron"
    /\ LET f == pl[p]
           s == f.list[f.i]
       IN  SetPl(p, IF CronMatches(s.row.recurrence, Minute(clock))
                    THEN [f EXCEPT !.pc = "acquire", !.cmin = Minute(clock)]
                    ELSE PollAdvance(f))
    /\ UNCHANGED <<sched, asgmap, execs, mg, trig, ctags, moreVars, guardVars, fo, snap, table,
                   nextOp, created, nUpd, workerVars, lockVars, deriveVars>>

\* acquire_idempotency_lock: now = int(time.time())
PollAcquire(p) ==
    /\ pl[p].pc = "acquire"
    /\ SetPl(p, [pl[p] EXCEPT !.lnow = clock, !.pc = "lockput"])
    /\ UNCHANGED <<sched, asgmap, execs, mg, trig, ctags, moreVars, guardVars, fo, snap, table,
                   nextOp, created, nUpd, workerVars, lockVars, deriveVars>>

\* acquire_idempotency_lock: the conditional put on
\* LOCK#schedule:{schedule_id}:scale:{minute_key}
PollLockPut(p) ==
    /\ pl[p].pc = "lockput"
    /\ LET f == pl[p]
           key == <<f.list[f.i].id, Minute(f.now)>>
           ok == LockCondition(locks[key], f.lnow)
       IN  /\ locks' = IF ok THEN [locks EXCEPT ![key] = f.lnow + DefaultTtl] ELSE locks
           /\ lockLog' = Append(lockLog, [key |-> key, now |-> f.lnow,
                                          ttl |-> DefaultTtl, ok |-> ok])
           /\ SetPl(p, IF ok THEN [f EXCEPT !.pc = "trigger"] ELSE PollAdvance(f))
    /\ UNCHANGED <<clock, lcall, sched, asgmap, execs, mg, trig, ctags, moreVars, guardVars, fo,
                   snap, table, nextOp, created, nUpd, workerVars, deriveVars>>

\* trigger_schedule_operation(schedule, "scale") for a target dict without a
\* "type" key: discover_clusters({}), the schedule's sizes on every node_group,
\* create_operation and fan_out_operation; operation_id None without clusters
PollTrigger(p) ==
    /\ pl[p].pc = "trigger"
    /\ LET f == pl[p]
           s == f.list[f.i]
           clusters == Discovered(asg, ctags, NoFilter)
           op == IF clusters = <<>> THEN None ELSE nextOp + 1
       IN  /\ IF clusters = <<>>
              THEN UNCHANGED <<table, created, queue, nextOp>>
              ELSE DispatchDo("scale", clusters, s.row.sizes, s.id)
           /\ trig' = Append(trig, [sid |-> s.id, key |-> Minute(f.now), at |-> clock,
                                    by |-> p, op |-> op, cron |-> f.cmin])
           /\ SetPl(p, [f EXCEPT !.pc = "record", !.op = op,
                                 !.ops = @ + (IF op = None THEN 0 ELSE 1)])
    /\ UNCHANGED <<sched, asgmap, execs, mg, ctags, moreVars, guardVars, fo, snap, nUpd,
                   asg0, baseline, asg, wk, lockVars, deriveVars>>

\* result.get("operation_id", ""): the value under the key, None included
RecordedOp(operation_id) == operation_id

\* record_execution: put_item of SCHEDULE#id / EXEC#{now}; triggered_count += 1
PollRecord(p) ==
    /\ pl[p].pc = "record"
    /\ LET f == pl[p]
       IN  /\ execs' = Append(execs, [sid |-> f.list[f.i].id, at |-> clock,
                                      op |-> RecordedOp(f.op),
                                      by |-> p, key |-> Minute(f.now)])
           /\ SetPl(p, PollAdvance([f EXCEPT !.triggered = @ + 1]))
    /\ UNCHANGED <<sched, asgmap, mg, trig, ctags, moreVars, guardVars, fo, snap, table,
                   nextOp, created, nUpd, workerVars, lockVars, deriveVars>>

\* The handler returns its counts
PollReturn(p) ==
    /\ pl[p].pc = "return"
    /\ SetPl(p, [pl[p] EXCEPT !.pc = "idle", !.end = clock, !.runs = @ + 1,
                              !.ret = "summary"])
    /\ UNCHANGED <<sched, asgmap, execs, mg, trig, ctags, moreVars, guardVars, fo, snap, table,
                   nextOp, created, nUpd, workerVars, lockVars, deriveVars>>

\* The call raised with no handler around it: the exception leaves the handler
\* and the invocation ends without a summary
PollAborted(f) ==
    [f EXCEPT !.pc = "idle", !.end = clock, !.runs = @ + 1, !.failed = @ + 1,
              !.ret = "raised"]

\* The call raised inside the try block: error_count += 1, next schedule
PollCounted(f) ==
    PollAdvance([f EXCEPT !.errors = @ + 1, !.failed = @ + 1])

\* update_schedule(schedule_id, {"enabled": True}) raises a ClientError: the
\* except clause around it names ValueError and TypeError only
PollResumeRaises(p) ==
    /\ pl[p].pc = "pause"
    /\ LET row == pl[p].list[pl[p].i].row
       IN  row.paused_until # None /\ ~(pl[p].now < row.paused_until)
    /\ SetPl(p, PollAborted(pl[p]))
    /\ UNCHANGED <<sched, asgmap, execs, mg, trig, ctags, moreVars, guardVars, fo, snap,
                   table, nextOp, created, nUpd, workerVars, lockVars, deriveVars>>

\* is_triggered raises: ZoneInfo(tz_name) for a time_zone that is no IANA name
\* (create_schedule stores the field unchecked); no try block around the call
PollCronRaises(p) ==
    /\ pl[p].pc = "cron"
    /\ SetPl(p, PollAborted(pl[p]))
    /\ UNCHANGED <<sched, asgmap, execs, mg, trig, ctags, moreVars, guardVars, fo, snap,
                   table, nextOp, created, nUpd, workerVars, lockVars, deriveVars>>

\* acquire_idempotency_lock re-raises a ClientError other than the failed
\* condition; the call is outside the try block
PollLockRaises(p) ==
    /\ pl[p].pc = "lockput"
    /\ SetPl(p, PollAborted(pl[p]))
    /\ UNCHANGED <<sched, asgmap, execs, mg, trig, ctags, moreVars, guardVars, fo, snap,
                   table, nextOp, created, nUpd, workerVars, lockVars, deriveVars>>

\* trigger_schedule_operation raises (discovery, create_operation or a publish)
PollTriggerRaises(p) ==
    /\ pl[p].pc = "trigger"
    /\ SetPl(p, PollCounted(pl[p]))
    /\ UNCHANGED <<sched, asgmap, execs, mg, trig, ctags, moreVars, guardVars, fo, snap,
                   table, nextOp, created, nUpd, workerVars, lockVars, deriveVars>>

\* record_execution raises
PollRecordRaises(p) ==
    /\ pl[p].pc = "record"
    /\ SetPl(p, PollCounted(pl[p]))
    /\ UNCHANGED <<sched, asgmap, execs, mg, trig, ctags, moreVars, guardVars, fo, snap,
                   table, nextOp, created, nUpd, workerVars, lockVars, deriveVars>>

\* POST /schedules/{id}/trigger: trigger_schedule_operation, and
\* record_execution when an operation was created
ManualTrigger(id) ==
    /\ sched[id] # NoRow
    /\ Len(trig) < MaxPolls
    /\ LET clusters == Discovered(asg, ctags, NoFilter)
           op == IF clusters = <<>> THEN None ELSE nextOp + 1
       IN  /\ IF clusters = <<>>
              THEN UNCHANGED <<table, created, queue, nextOp, execs>>
              ELSE /\ DispatchDo("scale", clusters, sched[id].sizes, id)
                   /\ execs' = Append(execs, [sid |-> id, at |-> clock, op |-> op,
                                              by |-> "api", key |-> None])
           /\ trig' = Append(trig, [sid |-> id, key |-> None, at |-> clock,
                                    by |-> "api", op |-> op, cron |-> None])
    /\ UNCHANGED <<sched, asgmap, mg, pl, ctags, moreVars, guardVars, fo, snap, nUpd,
                   asg0, baseline, asg, wk, lockVars, deriveVars>>

SchedRest ==
    /\ sched = [i \in SchedIds |-> NoRow]
    /\ asgmap = [t \in SchedTargets |-> None]
    /\ execs = <<>>
    /\ mg = [c \in Managers |-> MgIdle]
    /\ pl = [p \in Pollers |-> PlIdle]
    /\ trig = <<>>

-----------------------------------------------------------------------------
(* Worker: handler and _process_message (task_worker.py), one store or cloud  *)
(* call per step                                                              *)

Workers == {"w1", "w2"}
MaxBatch == 2
MaxReceive == 1               \* deliveries of one message (the queue's redrive limit)

NoLoc == [ng |-> NoSizes, tgt |-> NoSizes, ret |-> "", st |-> "", err |-> NoError,
          cur |-> None, reg |-> "", inExc |-> FALSE, asgDone |-> FALSE,
          updDone |-> FALSE, actionRaised |-> FALSE]

IdleFrame == [pc |-> "idle", batch |-> <<>>, i |-> 0, failures |-> <<>>,
              res |-> <<>>, loc |-> NoLoc]

MsgId(m) == <<m.op, m.cid, m.name>>
Msg(w) == wk[w].batch[wk[w].i]
NgId(w) == <<Msg(w).cid, Msg(w).name>>

\* A faulty variant: the handler reports every record
RecordFailureAlways(failures, id, raised) == Append(failures, id)

\* handler: except Exception -> batch_item_failures.append(record["messageId"])
RecordFailure(failures, id, raised) ==
    IF raised THEN Append(failures, id) ELSE failures

\* _process_message is over for the current record (it returned or raised);
\* the handler's loop goes on with the next record
NextRecord(f, raised) ==
    [f EXCEPT !.failures = RecordFailure(@, MsgId(f.batch[f.i]), raised),
              !.res = Append(@, [raised |-> raised, actionRaised |-> f.loc.actionRaised]),
              !.i = @ + 1,
              !.pc = IF f.i + 1 <= Len(f.batch) THEN "discover" ELSE "return",
              !.loc = NoLoc]

\* The inner except: update_nodegroup_status(status="FAILED", error_message=str(e))
ToExcept(f) ==
    [f EXCEPT !.pc = "patch",
              !.loc = [NoLoc EXCEPT !.st = "FAILED", !.err = "boom", !.inExc = TRUE,
                                    !.actionRaised = TRUE]]

\* The controller call returned a dict with "action": result; next comes
\* update_nodegroup_status(status="COMPLETED", cur)
ToCompleted(f, cur, result) ==
    [f EXCEPT !.pc = "patch",
              !.loc = [NoLoc EXCEPT !.st = "COMPLETED", !.cur = cur, !.asgDone = TRUE,
                                    !.ret = result]]

\* A faulty variant: the baseline is cleaned up after every start, failed or not
AfterUpdatePcAnyStart(action, st) == IF action = "start" THEN "delete" ELSE "next"

\* What follows update_nodegroup_status in _process_message: delete_baseline
\* only in the start branch, after the COMPLETED update
AfterUpdatePc(action, st) ==
    IF action = "start" /\ st = "COMPLETED" THEN "delete" ELSE "next"

SetFrame(w, f) == wk' = [wk EXCEPT ![w] = f]

\* The keys _process_message requires. A message built by fan_out_operation
\* carries them all; a message from elsewhere names in "absent" the ones that
\* are missing or falsy
RequiredFields == {"operation_id", "action", "cluster_name", "account_id", "region"}
Absent(m) == IF "absent" \in DOMAIN m THEN m.absent ELSE {}

\* A faulty variant: region is not among the checked keys
AllRequiredButRegion(m) == Absent(m) \ {"region"} = {}

\* all([operation_id, action, cluster_name, account_id, region])
AllRequired(m) == Absent(m) = {}

\* handler: a batch of records arrives
Receive(w, b) ==
    /\ wk[w].pc = "idle"
    /\ b \in InjSeqs(queue, MaxBatch)
    /\ queue' = queue \ Range(b)
    /\ SetFrame(w, [IdleFrame EXCEPT !.pc = "discover", !.batch = b, !.i = 1])
    /\ UNCHANGED <<asg0, table, baseline, asg, nextOp, created, nUpd, lockVars, deriveVars, extVars>>

\* discover_clusters() returns the target cluster with the message's nodegroup
DiscoverFound(w) ==
    /\ wk[w].pc = "discover"
    /\ AllRequired(Msg(w))
    /\ NgId(w) \in DOMAIN asg
    /\ PassesDiscovery(ctags[Msg(w).cid], NoFilter)
    /\ ~Skipped(NgId(w))
    /\ SetFrame(w, [wk[w] EXCEPT
           !.pc = CASE Msg(w).action = "stop" -> "save"
                    [] Msg(w).action = "start" -> "get"
                    [] OTHER -> "scale",
           !.loc = [NoLoc EXCEPT !.ng = asg[NgId(w)]]])
    /\ UNCHANGED <<asg0, table, baseline, asg, queue, nextOp, created, nUpd, lockVars, deriveVars, extVars>>

\* The cluster or the nodegroup is not among the discovered ones: logged, skipped
DiscoverMissing(w) ==
    /\ wk[w].pc = "discover"
    /\ AllRequired(Msg(w))
    /\ SetFrame(w, NextRecord(wk[w], FALSE))
    /\ UNCHANGED <<asg0, table, baseline, asg, queue, nextOp, created, nUpd, lockVars, deriveVars, extVars>>

\* discover_clusters() raises: the outer except re-raises to the handler
DiscoverRaises(w) ==
    /\ wk[w].pc = "discover"
    /\ AllRequired(Msg(w))
    /\ SetFrame(w, NextRecord(wk[w], TRUE))
    /\ UNCHANGED <<asg0, table, baseline, asg, queue, nextOp, created, nUpd, lockVars, deriveVars, extVars>>

\* A required key is missing: logged, and _process_message returns
DropInvalid(w) ==
    /\ wk[w].pc = "discover"
    /\ ~AllRequired(Msg(w))
    /\ SetFrame(w, NextRecord(wk[w], FALSE))
    /\ UNCHANGED <<asg0, table, baseline, asg, queue, nextOp, created, nUpd, lockVars, deriveVars, extVars>>

\* A message that fan_out_operation did not build arrives on the queue: it
\* names operation 1 and a nodegroup of the fleet, and lacks one required key
MaxInvalid == 2
InvalidMessages ==
    {[op |-> IF f = "operation_id" THEN None ELSE 1,
      action |-> IF f = "action" THEN "" ELSE "stop",
      cid |-> k[1], name |-> k[2], target |-> NoTarget, rc |-> 1, absent |-> {f}] :
         f \in RequiredFields, k \in DOMAIN asg}

InjectInvalid(m) ==
    /\ m \in InvalidMessages \ queue
    /\ Cardinality({q \in queue : ~AllRequired(q)}) < MaxInvalid
    /\ queue' = queue \cup {m}
    /\ UNCHANGED <<asg0, table, baseline, asg, wk, nextOp, created, nUpd, lockVars, deriveVars, extVars>>

\* stop: baseline.save_baseline(current sizes)
SaveBaseline(w) ==
    /\ wk[w].pc = "save"
    /\ LET r == save_baseline(baseline, NgId(w), wk[w].loc.ng)
       IN  /\ baseline' = r.b
           /\ SetFrame(w, [wk[w] EXCEPT !.pc = "describe",
                  !.loc = [NoLoc EXCEPT !.ret = IF r.ret THEN "true" ELSE "false",
                                        !.ng = wk[w].loc.ng]])
    /\ UNCHANGED <<asg0, table, asg, queue, nextOp, created, nUpd, lockVars, deriveVars, extVars>>

\* stop_nodegroup: describe_auto_scaling_groups, SKIPPED when already at zero
Describe(w) ==
    /\ wk[w].pc = "describe"
    /\ SetFrame(w, IF AlreadyAtZero(asg[NgId(w)])
                   THEN ToCompleted(wk[w], 0, "SKIPPED")
                   ELSE [wk[w] EXCEPT !.pc = "zero",
                            !.loc = [NoLoc EXCEPT !.tgt = StopSizes(asg[NgId(w)])]])
    /\ UNCHANGED <<asg0, table, baseline, asg, queue, nextOp, created, nUpd, lockVars, deriveVars, extVars>>

\* stop_nodegroup: update_auto_scaling_group to zero
Zero(w) ==
    /\ wk[w].pc = "zero"
    /\ ValidSizes(wk[w].loc.tgt)
    /\ asg' = [asg EXCEPT ![NgId(w)] = wk[w].loc.tgt]
    /\ SetFrame(w, ToCompleted(wk[w], 0, "STOPPED"))
    /\ UNCHANGED <<asg0, table, baseline, queue, nextOp, created, nUpd, lockVars, deriveVars, extVars>>

\* start: baseline.get_baseline and the choice of the sizes to restore
GetBaseline(w) ==
    /\ wk[w].pc = "get"
    /\ SetFrame(w, [wk[w] EXCEPT !.pc = "restore",
           !.loc = [NoLoc EXCEPT
               !.tgt = StartSizes(get_baseline(baseline, NgId(w)), wk[w].loc.ng)]])
    /\ UNCHANGED <<asg0, table, baseline, asg, queue, nextOp, created, nUpd, lockVars, deriveVars, extVars>>

\* start_nodegroup: one update_auto_scaling_group with the three sizes
Restore(w) ==
    /\ wk[w].pc = "restore"
    /\ ValidSizes(wk[w].loc.tgt)
    /\ asg' = [asg EXCEPT ![NgId(w)] = wk[w].loc.tgt]
    /\ SetFrame(w, ToCompleted(wk[w], wk[w].loc.tgt[1], "STARTED"))
    /\ UNCHANGED <<asg0, table, baseline, queue, nextOp, created, nUpd, lockVars, deriveVars, extVars>>

\* scale_nodegroup with the message's targets
Scale(w) ==
    /\ wk[w].pc = "scale"
    /\ ValidSizes(ScaleSizes(asg[NgId(w)], Msg(w).target))
    /\ asg' = [asg EXCEPT ![NgId(w)] = ScaleSizes(@, Msg(w).target)]
    /\ SetFrame(w, ToCompleted(wk[w], Msg(w).target[1], "SCALED"))
    /\ UNCHANGED <<asg0, table, baseline, queue, nextOp, created, nUpd, lockVars, deriveVars, extVars>>

\* A controller call fails (ASG not found, retries exhausted, sizes rejected)
ControllerRaises(w) ==
    /\ wk[w].pc \in {"describe", "zero", "restore", "scale"}
    /\ SetFrame(w, ToExcept(wk[w]))
    /\ UNCHANGED <<asg0, table, baseline, asg, queue, nextOp, created, nUpd, lockVars, deriveVars, extVars>>

\* save_baseline or get_baseline raises a ClientError
BaselineRaises(w) ==
    /\ wk[w].pc \in {"save", "get"}
    /\ SetFrame(w, ToExcept(wk[w]))
    /\ UNCHANGED <<asg0, table, baseline, asg, queue, nextOp, created, nUpd, lockVars, deriveVars, extVars>>

\* update_nodegroup_status: UpdateItem on the NG row
Patch(w) ==
    /\ wk[w].pc = "patch"
    /\ table' = PatchNg(table, Msg(w).op, Msg(w).cid, Msg(w).name,
                        wk[w].loc.st, wk[w].loc.err, wk[w].loc.cur)
    /\ SetFrame(w, [wk[w] EXCEPT !.pc = "readngs"])
    /\ UNCHANGED <<asg0, baseline, asg, queue, nextOp, created, nUpd, lockVars, deriveVars, extVars>>

\* _update_cluster_status: query the NG rows and derive
ReadNgs(w) ==
    /\ wk[w].pc = "readngs"
    /\ SetFrame(w, [wk[w] EXCEPT !.pc = "wcluster",
           !.loc.reg = Derive(ClusterNgStatuses(table, Msg(w).op, Msg(w).cid))])
    /\ UNCHANGED <<asg0, table, baseline, asg, queue, nextOp, created, nUpd, lockVars, deriveVars, extVars>>

\* _update_cluster_status: UpdateItem on the CLUSTER row
WriteCluster(w) ==
    /\ wk[w].pc = "wcluster"
    /\ table' = SetStatus(table, ClusterKey(Msg(w).op, Msg(w).cid), wk[w].loc.reg)
    /\ SetFrame(w, [wk[w] EXCEPT !.pc = "readcl", !.loc.reg = ""])
    /\ UNCHANGED <<asg0, baseline, asg, queue, nextOp, created, nUpd, lockVars, deriveVars, extVars>>

\* _update_meta_status: query the CLUSTER rows and derive
ReadClusters(w) ==
    /\ wk[w].pc = "readcl"
    /\ SetFrame(w, [wk[w] EXCEPT !.pc = "wmeta",
           !.loc.reg = Derive(OpClusterStatuses(table, Msg(w).op))])
    /\ UNCHANGED <<asg0, table, baseline, asg, queue, nextOp, created, nUpd, lockVars, deriveVars, extVars>>

\* _update_meta_status: UpdateItem on the META row; update_nodegroup_status returns
WriteMeta(w) ==
    /\ wk[w].pc = "wmeta"
    /\ table' = SetStatus(table, MetaKey(Msg(w).op), wk[w].loc.reg)
    /\ SetFrame(w, IF AfterUpdatePc(Msg(w).action, wk[w].loc.st) = "delete"
                   THEN [wk[w] EXCEPT !.pc = "delete", !.loc.reg = "",
                                      !.loc.updDone = TRUE]
                   ELSE NextRecord(wk[w], FALSE))
    /\ UNCHANGED <<asg0, baseline, asg, queue, nextOp, created, nUpd, lockVars, deriveVars, extVars>>

UpdatePcs == {"patch", "readngs", "wcluster", "readcl", "wmeta"}

\* A store call of the COMPLETED update raises: the inner except takes over
UpdateRaisesInTry(w) ==
    /\ wk[w].pc \in UpdatePcs
    /\ ~wk[w].loc.inExc
    /\ SetFrame(w, ToExcept(wk[w]))
    /\ UNCHANGED <<asg0, table, baseline, asg, queue, nextOp, created, nUpd, lockVars, deriveVars, extVars>>

\* A store call of the FAILED update raises inside the except block: the error
\* leaves _process_message and the handler records the record's messageId
UpdateRaisesInExcept(w) ==
    /\ wk[w].pc \in UpdatePcs
    /\ wk[w].loc.inExc
    /\ SetFrame(w, NextRecord(wk[w], TRUE))
    /\ UNCHANGED <<asg0, table, baseline, asg, queue, nextOp, created, nUpd, lockVars, deriveVars, extVars>>

\* start: baseline.delete_baseline after the COMPLETED update
DeleteBaseline(w) ==
    /\ wk[w].pc = "delete"
    /\ baseline' = delete_baseline(baseline, NgId(w))
    /\ SetFrame(w, NextRecord(wk[w], FALSE))
    /\ UNCHANGED <<asg0, table, asg, queue, nextOp, created, nUpd, lockVars, deriveVars, extVars>>

\* delete_item raises a ClientError: delete_baseline logs it and returns
DeleteFails(w) ==
    /\ wk[w].pc = "delete"
    /\ SetFrame(w, NextRecord(wk[w], FALSE))
    /\ UNCHANGED <<asg0, table, baseline, asg, queue, nextOp, created, nUpd, lockVars, deriveVars, extVars>>

\* handler returns {"batchItemFailures": [...]}; the queue redelivers those
HandlerReturn(w) ==
    /\ wk[w].pc = "return"
    /\ queue' = queue \cup
           {[m EXCEPT !.rc = @ + 1] :
               m \in {m \in Range(wk[w].batch) :
                         MsgId(m) \in Range(wk[w].failures) /\ m.rc < MaxReceive}}
    /\ SetFrame(w, IdleFrame)
    /\ UNCHANGED <<asg0, table, baseline, asg, nextOp, created, nUpd, lockVars, deriveVars, extVars>>

-----------------------------------------------------------------------------
(* Duplicate delivery of a message that has been processed *)

NoSnap == [taken |-> FALSE, asg |-> <<>>, baseline |-> <<>>, msg |-> <<>>]

\* The messages fan_out_operation published for operation op
OpMessages(op) ==
    IF created[op].ok
    THEN FanOut(op, created[op].action, created[op].clusters, created[op].target)
    ELSE {}

\* No message is waiting or being processed
AtRest == queue = {} /\ \A w \in Workers : wk[w].pc = "idle"

\* SQS delivers a message of the latest operation once more after it was
\* processed; snap keeps the sizes and baselines the first processing left
DuplicateDelivery(m) ==
    /\ AtRest
    /\ ~snap.taken
    /\ nextOp >= 1
    /\ m \in OpMessages(nextOp)
    /\ queue' = {m}
    /\ snap' = [taken |-> TRUE, asg |-> asg, baseline |-> baseline, msg |-> m]
    /\ UNCHANGED <<asg0, table, baseline, asg, wk, nextOp, created, nUpd, ctags, moreVars,
                   guardVars, schedVars, fo, lockVars, deriveVars>>

SnapRest == snap = NoSnap

-----------------------------------------------------------------------------
(* Operation creation on its three paths (main.py stop_operation and         *)
(* start_operation, schedule_worker.py trigger_schedule_operation), one      *)
(* BatchWriteItem request or one sns publish per step                        *)

DpIdle == [pc |-> "idle", op |-> 0, ph |-> 0, items |-> <<>>, msgs |-> <<>>, i |-> 0,
           ret |-> ""]

\* The messages of fan_out_operation in the order of its two loops
FanOutSeq(op, action, clusters, target) ==
    Flatten([i \in 1..Len(clusters) |->
                [j \in 1..Len(clusters[i].node_groups) |->
                    [op |-> op, action |-> action, cid |-> clusters[i].cluster_id,
                     name |-> clusters[i].node_groups[j].name,
                     target |-> MessageTarget(target), rc |-> 1]]])

\* A faulty variant: the handler fans out first and creates the rows afterwards
FanOutThenCreate == <<"publish", "write">>

\* The handler calls state_manager.create_operation, then fan_out_operation
CreateThenFanOut == <<"write", "publish">>

\* The call that follows call number ph of the handler; the handler returns
\* after its last call
SeedGoto(f, ph) ==
    IF ph <= Len(CreateThenFanOut)
    THEN [f EXCEPT !.ph = ph, !.pc = CreateThenFanOut[ph]]
    ELSE [DpIdle EXCEPT !.ret = "returned"]

\* operation_id = str(uuid.uuid4()); the handler is about to make its first call
SeedBegin(action, clusters, target, by) ==
    /\ dp.pc = "idle"
    /\ nextOp < MaxOps
    /\ LET op == nextOp + 1
       IN  /\ dp' = SeedGoto([DpIdle EXCEPT !.op = op, !.i = 1,
                                 !.items = Items(op, action, clusters),
                                 !.msgs = FanOutSeq(op, action, clusters, target)], 1)
           /\ created' = Append(created, [clusters |-> clusters, ok |-> FALSE, by |-> by,
                                          action |-> action, target |-> target])
           /\ nextOp' = op
    /\ UNCHANGED <<table, nUpd, workerVars, lockVars, deriveVars, ctags, guardVars,
                   schedVars, fo, snap, lastVars, rt, aIn, aOut, tIn, tOut>>

\* POST /operation/stop
SeedStop ==
    LET stoppable == Stoppable(Discovered(asg, ctags, NoFilter))
    IN  stoppable # <<>> /\ SeedBegin("stop", stoppable, NoTarget, "api")

\* POST /operation/start with source_operation_id = src
SeedStart(src) ==
    /\ MetaKey(src) \in DOMAIN table
    /\ table[MetaKey(src)].action = "stop"
    /\ SeedBegin("start", SourceClusters(table, src), NoTarget, "api")

\* trigger_schedule_operation(schedule, "scale")
SeedTrigger(target) ==
    LET clusters == Discovered(asg, ctags, NoFilter)
    IN  clusters # <<>> /\ SeedBegin("scale", clusters, target, "schedule")

\* create_operation: the batch writer sends one request of up to FlushAmount
\* items; a request that names a key twice is rejected and the error leaves the
\* handler; create_operation returns when no item is left
SeedWrite ==
    /\ dp.pc = "write"
    /\ LET n == Min2(FlushAmount, Len(dp.items))
           c == SubSeq(dp.items, 1, n)
           rest == SubSeq(dp.items, n + 1, Len(dp.items))
       IN  IF ChunkHasDup(c)
           THEN /\ dp' = [DpIdle EXCEPT !.ret = "raised"]
                /\ UNCHANGED <<table, created>>
           ELSE /\ table' = PutAll(table, c)
                /\ dp' = IF rest = <<>> THEN SeedGoto([dp EXCEPT !.items = rest], dp.ph + 1)
                         ELSE [dp EXCEPT !.items = rest]
                /\ created' = IF rest = <<>> THEN [created EXCEPT ![dp.op].ok = TRUE]
                              ELSE created
    /\ UNCHANGED <<nextOp, nUpd, workerVars, lockVars, deriveVars, ctags, guardVars,
                   schedVars, fo, snap, lastVars, rt, aIn, aOut, tIn, tOut>>

\* The store fails a request of the batch writer: the error leaves the handler
SeedWriteRaises ==
    /\ dp.pc = "write"
    /\ dp' = [DpIdle EXCEPT !.ret = "raised"]
    /\ UNCHANGED <<table, created, nextOp, nUpd, workerVars, lockVars, deriveVars, ctags,
                   guardVars, schedVars, fo, snap, lastVars, rt, aIn, aOut, tIn, tOut>>

\* fan_out_operation: sns_client.publish of the next message
SeedPublish ==
    /\ dp.pc = "publish"
    /\ dp.i <= Len(dp.msgs)
    /\ queue' = queue \cup {dp.msgs[dp.i]}
    /\ dp' = [dp EXCEPT !.i = @ + 1]
    /\ UNCHANGED <<asg0, baseline, asg, wk, table, created, nextOp, nUpd, lockVars,
                   deriveVars, ctags, guardVars, schedVars, fo, snap, lastVars, rt, aIn, aOut,
                   tIn, tOut>>

\* sns_client.publish raises: the error leaves fan_out_operation and the handler
SeedPublishRaises ==
    /\ dp.pc = "publish"
    /\ dp.i <= Len(dp.msgs)
    /\ dp' = [DpIdle EXCEPT !.ret = "raised"]
    /\ UNCHANGED <<workerVars, table, created, nextOp, nUpd, lockVars, deriveVars, ctags,
                   guardVars, schedVars, fo, snap, lastVars, rt, aIn, aOut, tIn, tOut>>

\* fan_out_operation returns its counts
SeedFanOutReturn ==
    /\ dp.pc = "publish"
    /\ dp.i > Len(dp.msgs)
    /\ dp' = SeedGoto(dp, dp.ph + 1)
    /\ UNCHANGED <<workerVars, table, created, nextOp, nUpd, lockVars, deriveVars, ctags,
                   guardVars, schedVars, fo, snap, lastVars, rt, aIn, aOut, tIn, tOut>>

SeedRest == dp = DpIdle

-----------------------------------------------------------------------------
(* The retry decorator of stop_nodegroup, start_nodegroup and scale_nodegroup *)
(* (eks_controller.py), one attempt per step                                  *)

ControllerMethods == {"stop_nodegroup", "start_nodegroup", "scale_nodegroup"}

\* botocore ClientError codes: a throttle, and two that no retry can cure
Transient == {"Throttling"}
ClientErrors == Transient \cup {"ValidationError", "AccessDenied"}

\* RuntimeError: raised by the method itself when no ASG is found
Raisable == ClientErrors \cup {"RuntimeError"}

\* stop=stop_after_attempt(5)
StopAfterAttempt == 5

\* retry=retry_if_exception_type(ClientError)
RetryIf(e) == e \in ClientErrors

RtIdle == [pc |-> "idle", method |-> "", attempt |-> 0, errs |-> <<>>]

\* The decorated method is called: attempt number 1 begins
ControllerCall(method) ==
    /\ rt.pc = "idle"
    /\ rt' = [RtIdle EXCEPT !.pc = "attempt", !.method = method, !.attempt = 1]
    /\ UNCHANGED <<table, nextOp, created, nUpd, workerVars, lockVars, deriveVars, ctags,
                   guardVars, schedVars, fo, snap, lastVars, dp, aIn, aOut, tIn, tOut>>

\* The attempt returns the method's result
AttemptReturns ==
    /\ rt.pc = "attempt"
    /\ rt' = [rt EXCEPT !.pc = "returned"]
    /\ UNCHANGED <<table, nextOp, created, nUpd, workerVars, lockVars, deriveVars, ctags,
                   guardVars, schedVars, fo, snap, lastVars, dp, aIn, aOut, tIn, tOut>>

\* The attempt raises e: another attempt after the wait when the retry
\* condition holds and the stop condition does not, else an error leaves the
\* call (e itself, or RetryError once the attempts are used up)
AttemptRaises(e) ==
    /\ rt.pc = "attempt"
    /\ rt' = IF RetryIf(e) /\ rt.attempt < StopAfterAttempt
             THEN [rt EXCEPT !.attempt = @ + 1, !.errs = Append(@, e)]
             ELSE [rt EXCEPT !.pc = "raised", !.errs = Append(@, e)]
    /\ UNCHANGED <<table, nextOp, created, nUpd, workerVars, lockVars, deriveVars, ctags,
                   guardVars, schedVars, fo, snap, lastVars, dp, aIn, aOut, tIn, tOut>>

RetryRest == rt = RtIdle

-----------------------------------------------------------------------------
(* EKSController._find_asg_name (eks_controller.py)                          *)

\* An ASG of the region, as far as _find_asg_name looks at it: how its tags
\* name the cluster ("eks": eks:cluster-name equals cluster_name; "k8s": only
\* kubernetes.io/cluster/<cluster_name> is present; "": neither), its
\* eks:nodegroup-name tag ("" when absent), and whether nodegroup_name occurs in
\* its AutoScalingGroupName. An ASG's name is its position in the listing.
WantedNodegroup == "ng1"
AsgKinds == [cluster : {"eks", "k8s", ""}, nodegroup : {"", "ng1", "ng2"},
             named : BOOLEAN]
MaxAsgs == 3
AsgListings == UNION {[1..n -> AsgKinds] : n \in 0..MaxAsgs}

NoAsg == 0                    \* None

\* Neither the primary nor the fallback tag: continue
ClusterMatched(a) == a.cluster \in {"eks", "k8s"}

\* The loop over the listing from position i on
RECURSIVE FindAsgFrom(_, _)
FindAsgFrom(asgs, i) ==
    IF i > Len(asgs) THEN NoAsg
    ELSE IF ~ClusterMatched(asgs[i]) THEN FindAsgFrom(asgs, i + 1)
    ELSE IF asgs[i].nodegroup # "" /\ asgs[i].nodegroup = WantedNodegroup THEN i
    ELSE IF asgs[i].named THEN i
    ELSE i

\* _find_asg_name(asg_client, cluster_name, nodegroup_name)
find_asg_name(asgs) == FindAsgFrom(asgs, 1)

NotCalled == [done |-> FALSE, val |-> 0]

FindAsgCall ==
    /\ ~aOut.done
    /\ aOut' = [done |-> TRUE, val |-> find_asg_name(aIn)]
    /\ UNCHANGED <<aIn, table, nextOp, created, nUpd, workerVars, lockVars, deriveVars,
                   ctags, guardVars, schedVars, fo, snap, lastVars, dp, rt, tIn, tOut>>

FindAsgRest == aIn = <<>> /\ aOut = NotCalled

-----------------------------------------------------------------------------
(* get_assumed_role_session (config.py): the TTL cache of STS sessions, its   *)
(* mutex, and the threads calling it                                          *)

Threads == {"t1", "t2"}
CacheKeys == {"111-r1", "222-r1"}         \* f"{account_id}-{region_name}"
MaxSessionCalls == 3

NoSession == 0
NoThread == ""

\* key: cache_key; session: the session built from the credentials; out and
\* raised: what the last call returned or that it raised RuntimeError
ThIdle == [pc |-> "idle", key |-> "", session |-> NoSession, out |-> NoSession,
           raised |-> FALSE]

CcIdle == [cache |-> [k \in CacheKeys |-> NoSession], lock |-> NoThread,
           th |-> [t \in Threads |-> ThIdle], calls |-> 0, issued |-> 0]

\* A faulty variant: the with block reaches down to the insert
LockAfterMissHeld(t) == t

\* Leaving the first "with _session_lock" block on a miss releases the mutex
LockAfterMiss(t) == NoThread

CcStep(new) ==
    /\ cc' = new
    /\ UNCHANGED <<table, nextOp, created, nUpd, workerVars, lockVars, deriveVars,
                   ctags, guardVars, schedVars, fo, snap, dp, rt, aIn, aOut, tIn, tOut, dv, atags>>

\* get_assumed_role_session(account_id, region_name) is called
SessionCall(t, key) ==
    /\ cc.th[t].pc = "idle"
    /\ cc.calls < MaxSessionCalls
    /\ CcStep([cc EXCEPT !.calls = @ + 1,
                         !.th[t] = [ThIdle EXCEPT !.pc = "enter", !.key = key]])

\* with _session_lock: the thread blocks until the mutex is free
AcquireForLookup(t) ==
    /\ cc.th[t].pc = "enter"
    /\ cc.lock = NoThread
    /\ CcStep([cc EXCEPT !.lock = t, !.th[t].pc = "lookup"])

\* if cache_key in _session_cache: return _session_cache[cache_key]; the with
\* block is left either way
Lookup(t) ==
    /\ cc.th[t].pc = "lookup"
    /\ LET hit == cc.cache[cc.th[t].key]
       IN  CcStep(IF hit # NoSession
                  THEN [cc EXCEPT !.lock = NoThread,
                                  !.th[t] = [ThIdle EXCEPT !.out = hit]]
                  ELSE [cc EXCEPT !.lock = LockAfterMiss(t), !.th[t].pc = "assume"])

\* sts_client.assume_role returns credentials; boto3.Session(...)
AssumeRoleReturns(t) ==
    /\ cc.th[t].pc = "assume"
    /\ CcStep([cc EXCEPT !.issued = @ + 1, !.th[t].session = cc.issued + 1,
                         !.th[t].pc = "store"])

\* sts_client.assume_role raises ClientError: RuntimeError to the caller
AssumeRoleRaises(t) ==
    /\ cc.th[t].pc = "assume"
    /\ CcStep([cc EXCEPT !.th[t] = [ThIdle EXCEPT !.raised = TRUE]])

\* with _session_lock, the second block
AcquireForInsert(t) ==
    /\ cc.th[t].pc = "store"
    /\ cc.lock = NoThread
    /\ CcStep([cc EXCEPT !.lock = t, !.th[t].pc = "insert"])

\* _session_cache[cache_key] = session; the block is left; return session
Insert(t) ==
    /\ cc.th[t].pc = "insert"
    /\ CcStep([cc EXCEPT !.cache[cc.th[t].key] = cc.th[t].session,
                         !.lock = NoThread,
                         !.th[t] = [ThIdle EXCEPT !.out = cc.th[t].session]])

\* The ttl of an entry runs out: TTLCache no longer holds the key
EntryExpires(key) ==
    /\ cc.cache[key] # NoSession
    /\ cc.lock = NoThread
    /\ CcStep([cc EXCEPT !.cache[key] = NoSession])

SessionRest == cc = CcIdle

-----------------------------------------------------------------------------
(* discover_all_resources (discovery.py): one task per (account, region) in   *)
(* a thread pool, collected as they complete                                  *)

Tasks == {"111/r1", "111/r2", "222/r1"}
MaxDiscoveryWorkers == 2      \* settings.max_discovery_workers
MaxTaskClusters == 2

\* The clusters task t finds when nothing fails, in the order list_clusters
\* names them; n[t] is their number
TaskClusters(n, t) == [j \in 1..n[t] |-> <<t, j>>]

\* A task: queued in the executor, running, returned, raised, or collected by
\* the as_completed loop; clusters is the task's local list
TaskIdle == [pc |-> "queued", clusters |-> <<>>]

DvIdle == [n |-> [t \in Tasks |-> 0], task |-> [t \in Tasks |-> TaskIdle],
           results |-> <<>>, failed |-> {}, returned |-> FALSE]

\* A faulty variant: the exception of a future leaves the loop empty-handed
OnTaskErrorReset(results) == <<>>

\* except Exception: the error is logged, results stay
OnTaskError(results) == results

DvStep(new) ==
    /\ dv' = new
    /\ UNCHANGED <<table, nextOp, created, nUpd, workerVars, lockVars, deriveVars,
                   ctags, guardVars, schedVars, fo, snap, dp, rt, aIn, aOut, tIn, tOut, cc,
                   atags>>

\* A pool thread takes the next submitted task
TaskStart(t) ==
    /\ dv.task[t].pc = "queued"
    /\ Cardinality({u \in Tasks : dv.task[u].pc = "running"}) < MaxDiscoveryWorkers
    /\ DvStep([dv EXCEPT !.task[t].pc = "running"])

\* _discover_account_clusters: the next cluster passes the filters and is
\* appended to the task's list
TaskAppend(t) ==
    /\ dv.task[t].pc = "running"
    /\ Len(dv.task[t].clusters) < dv.n[t]
    /\ DvStep([dv EXCEPT !.task[t].clusters =
                   Append(@, TaskClusters(dv.n, t)[Len(@) + 1])])

\* _discover_account_clusters: return clusters
TaskReturns(t) ==
    /\ dv.task[t].pc = "running"
    /\ Len(dv.task[t].clusters) = dv.n[t]
    /\ DvStep([dv EXCEPT !.task[t].pc = "returned"])

\* _discover_account_clusters: a call raises; logged and re-raised, the
\* task's list is lost with its frame
TaskRaises(t) ==
    /\ dv.task[t].pc = "running"
    /\ DvStep([dv EXCEPT !.task[t] = [pc |-> "raised", clusters |-> <<>>],
                         !.failed = @ \cup {t}])

\* for future in as_completed(futures): future.result() inside the try
Collect(t) ==
    /\ ~dv.returned
    /\ dv.task[t].pc \in {"returned", "raised"}
    /\ DvStep([dv EXCEPT !.task[t].pc = "collected",
                         !.results = IF dv.task[t].pc = "returned"
                                     THEN @ \o dv.task[t].clusters
                                     ELSE OnTaskError(@)])

\* The loop and the executor's with block are over: return results
DiscoveryReturns ==
    /\ ~dv.returned
    /\ \A t \in Tasks : dv.task[t].pc = "collected"
    /\ DvStep([dv EXCEPT !.returned = TRUE])

PoolRest == dv = DvIdle

SkipRest == atags = <<>>

LastRest == SessionRest /\ PoolRest /\ SkipRest

-----------------------------------------------------------------------------
(* is_triggered (cron_utils.py) on a clock of TicksPerMinute ticks a minute;  *)
(* one tick stands for the timedelta(seconds=1)                               *)

MaxCronMinute == 4            \* instants of the minutes 0..MaxCronMinute are checked

\* UTC offsets of the schedule's time zone, in minutes
TzOffsets == {0, 1, 59}

CronInstants == 0..((MaxCronMinute + 1) * TicksPerMinute - 1)

\* now.replace(second=0, microsecond=0)
StartOfMinute(t) == (t \div TicksPerMinute) * TicksPerMinute

\* reference_time.astimezone(tz): the wall clock of the time zone
AsTimezone(t, tz) == t + tz * TicksPerMinute

\* croniter: x is a time the expression schedules (second 0 of a minute whose
\* minute field matches)
Scheduled(cron, x) ==
    /\ x % TicksPerMinute = 0
    /\ \/ cron = EveryMinute
       \/ cron = MinuteOne /\ (x \div TicksPerMinute) % 60 = 1

\* croniter(expression, start).get_prev(): the latest scheduled time before
\* start (an hour back always holds one)
GetPrev(cron, start) ==
    LET back == (start - 60 * TicksPerMinute)..(start - 1)
        hits == {x \in back : Scheduled(cron, x)}
    IN  CHOOSE x \in hits : \A y \in hits : y <= x

\* A faulty variant: the iterator starts at the reference itself
CronStartAtRef(local_ref) == local_ref

\* local_ref + timedelta(seconds=1)
CronStart(local_ref) == local_ref + 1

\* is_triggered(cron_expression, tz_name, check_time) for a valid expression
is_triggered(cron, tz, t) ==
    LET local_ref == AsTimezone(StartOfMinute(t), tz)
        prev_trigger == GetPrev(cron, CronStart(local_ref))
    IN  prev_trigger = local_ref

IsTriggeredCall ==
    /\ ~tOut.done
    /\ tOut' = [done |-> TRUE, val |-> is_triggered(tIn.cron, tIn.tz, tIn.t)]
    /\ UNCHANGED <<tIn, table, nextOp, created, nUpd, workerVars, lockVars, deriveVars,
                   ctags, guardVars, schedVars, fo, snap, lastVars, dp, rt, aIn, aOut>>

CronRest ==
    /\ tIn = [cron |-> EveryMinute, tz |-> 0, t |-> 0]
    /\ tOut = [done |-> FALSE, val |-> FALSE]

MoreRest == SeedRest /\ RetryRest /\ FindAsgRest /\ CronRest /\ LastRest

-----------------------------------------------------------------------------
(* Initial states and specifications *)

WorkerRest ==
    /\ baseline = [k \in DOMAIN asg |-> NoSizes]
    /\ queue = {}
    /\ wk = [w \in Workers |-> IdleFrame]

LockRest ==
    /\ locks = [k \in LockKeys |-> None]
    /\ clock = 0
    /\ lcall = [p \in Callers |-> LockIdle]
    /\ lockLog = <<>>

TableRest ==
    /\ table = EmptyTable
    /\ nextOp = 0
    /\ created = <<>>
    /\ nUpd = 0

DeriveRest == dIn = <<>> /\ dOut = ""

\* Every cluster of the fleet opted in to stop operations and is not production
TagsRest == ctags = [c \in FleetClusters(asg) |-> AutoStopTags]

ExtRest == TagsRest /\ GuardRest /\ SchedRest /\ FanRest /\ SnapRest /\ MoreRest

FleetRest == asg = [k \in FleetOne |-> <<0, 0, 0>>] /\ asg0 = asg

\* Workers and dispatcher over a fleet whose ASGs start at InitSizes
Init ==
    /\ asg \in [FleetOne -> InitSizes]
    /\ asg0 = asg
    /\ WorkerRest /\ TableRest /\ LockRest /\ DeriveRest /\ ExtRest

DispatchSteps ==
    \/ ApiStop
    \/ \E src \in 1..MaxOps : ApiStart(src)
    \/ \E target \in ScaleTargets : TriggerScale(target)

\* The steps of a worker on stop and start messages when no call fails
StopStartSteps(w) ==
    \/ \E b \in InjSeqs(queue, MaxBatch) : Receive(w, b)
    \/ DiscoverFound(w)
    \/ SaveBaseline(w)
    \/ Describe(w)
    \/ Zero(w)
    \/ GetBaseline(w)
    \/ Restore(w)
    \/ Patch(w)
    \/ ReadNgs(w)
    \/ WriteCluster(w)
    \/ ReadClusters(w)
    \/ WriteMeta(w)
    \/ DeleteBaseline(w)
    \/ HandlerReturn(w)

HappySteps(w) == StopStartSteps(w) \/ Scale(w)

CloudFaults(w) ==
    \/ DiscoverMissing(w)
    \/ DiscoverRaises(w)
    \/ ControllerRaises(w)

StoreFaults(w) ==
    \/ BaselineRaises(w)
    \/ UpdateRaisesInTry(w)
    \/ UpdateRaisesInExcept(w)
    \/ DeleteFails(w)

Next ==
    \/ DispatchSteps
    \/ \E w \in Workers : HappySteps(w) \/ CloudFaults(w) \/ StoreFaults(w)

Spec == Init /\ [][Next]_vars

\* The same system when every call to the document store succeeds
NextStoreOk ==
    \/ DispatchSteps
    \/ \E w \in Workers : HappySteps(w) \/ CloudFaults(w)

SpecStoreOk == Init /\ [][NextStoreOk]_vars

\* One stop of a two-nodegroup cluster, then, once the stop is over, one start
\* that references it; no call fails
InitTrip ==
    /\ asg \in [FleetTwo -> TripSizes]
    /\ asg0 = asg
    /\ WorkerRest /\ TableRest /\ LockRest /\ DeriveRest /\ ExtRest

TripStop == nextOp = 0 /\ ApiStop

TripStart == nextOp = 1 /\ AtRest /\ ApiStart(1)

NextTrip ==
    \/ TripStop
    \/ TripStart
    \/ \E w \in Workers : StopStartSteps(w)

SpecTrip == InitTrip /\ [][NextTrip]_vars

\* _derive_status on its own
InitDerive ==
    /\ dIn \in StatusLists
    /\ dOut = ""
    /\ FleetRest /\ WorkerRest /\ TableRest /\ LockRest /\ ExtRest

SpecDerive == InitDerive /\ [][DeriveCall]_vars

\* The idempotency lock on its own
InitLock == FleetRest /\ WorkerRest /\ TableRest /\ LockRest /\ DeriveRest /\ ExtRest

NextLock ==
    \/ \E p \in Callers, key \in LockKeys, ttl \in TtlValues : LockBegin(p, key, ttl)
    \/ \E p \in Callers : LockPut(p) \/ LockPutRaises(p)
    \/ Tick

SpecLock == InitLock /\ [][NextLock]_vars

\* create_operation and sequential updates on their own
InitCreate == FleetRest /\ WorkerRest /\ TableRest /\ LockRest /\ DeriveRest /\ ExtRest

NextCreate ==
    \/ \E action \in {"stop", "start", "scale"}, clusters \in ClusterLists :
           CreateOp(action, clusters)
    \/ \E op \in 1..MaxCreateOps, c \in ClusterIds, n \in 1..MaxUpdName,
          status \in {"COMPLETED", "FAILED"} : UpdateNg(op, <<c, n>>, status)

SpecCreate == InitCreate /\ [][NextCreate]_vars

\* The filters of discovery on one cluster with arbitrary tags
InitGuard ==
    /\ gIn \in [tags : TagLists, label_filter : LabelFilters]
    /\ gOut = ""
    /\ FleetRest /\ WorkerRest /\ TableRest /\ LockRest /\ DeriveRest
    /\ TagsRest /\ SchedRest /\ FanRest /\ SnapRest /\ MoreRest

SpecGuard == InitGuard /\ [][DiscoverOne]_vars

\* The LOCK rows the poller uses
PollLockRest ==
    /\ locks = [k \in PollLockKeys |-> None]
    /\ clock = 0
    /\ lcall = [p \in Callers |-> LockIdle]
    /\ lockLog = <<>>

PauseTimes == {None} \cup 1..MaxTime

\* The schedule API under concurrent requests
InitSched ==
    /\ FleetRest /\ WorkerRest /\ TableRest /\ PollLockRest /\ DeriveRest
    /\ TagsRest /\ GuardRest /\ SchedRest /\ FanRest /\ SnapRest /\ MoreRest

ManagerSteps ==
    \/ \E c \in Managers, target \in SchedTargets, recurrence \in Crons :
           CreateBegin(c, target, recurrence)
    \/ \E c \in Managers :
           \/ CreateReadMap(c)
           \/ CreateReadSched(c)
           \/ CreatePutSchedule(c)
           \/ CreatePutMapping(c)
    \/ \E id \in SchedIds, value \in BOOLEAN : UpdateEnabled(id, value)
    \/ \E id \in SchedIds : DeleteSchedule(id)
    \/ \E id \in SchedIds, until \in {None, TicksPerMinute} : PauseSchedule(id, until)

PollerSteps(p) ==
    \/ PollStart(p)
    \/ PollList(p)
    \/ PollPause(p)
    \/ PollCron(p)
    \/ PollAcquire(p)
    \/ PollLockPut(p)
    \/ PollTrigger(p)
    \/ PollRecord(p)
    \/ PollReturn(p)

SpecSched == InitSched /\ [][ManagerSteps]_vars

\* The fleet of the poller specifications: one cluster with two nodegroups
FleetTwoRest == asg = [k \in FleetTwo |-> <<2, 1, 3>>] /\ asg0 = asg

\* Schedule rows as create_schedule writes them, or as pause followed by
\* update(enabled=true) leaves them: enabled with a paused_until
PollRows ==
    {[target |-> t, enabled |-> "true", paused_until |-> u, recurrence |-> r,
      sizes |-> SchedSizes] :
        t \in SchedTargets, u \in {None, TicksPerMinute}, r \in Crons}

\* One schedule exists, with its mapping row
OneSchedule(rows) ==
    /\ \E row \in rows :
          /\ sched = [i \in SchedIds |-> IF i = 1 THEN row ELSE NoRow]
          /\ asgmap = [t \in SchedTargets |-> IF t = row.target THEN 1 ELSE None]
    /\ execs = <<>>
    /\ mg = [c \in Managers |-> MgIdle]
    /\ pl = [p \in Pollers |-> PlIdle]
    /\ trig = <<>>

\* Concurrent poller invocations, manual triggers and the clock
InitPoll ==
    /\ FleetTwoRest /\ WorkerRest /\ TableRest /\ PollLockRest /\ DeriveRest
    /\ TagsRest /\ GuardRest /\ FanRest /\ SnapRest /\ MoreRest
    /\ OneSchedule(PollRows)

NextPoll ==
    \/ \E p \in Pollers : PollerSteps(p)
    \/ \E id \in SchedIds : ManualTrigger(id)
    \/ Tick

SpecPoll == InitPoll /\ [][NextPoll]_vars

\* Pause requests, poller invocations and the clock
InitPause ==
    /\ FleetTwoRest /\ WorkerRest /\ TableRest /\ PollLockRest /\ DeriveRest
    /\ TagsRest /\ GuardRest /\ FanRest /\ SnapRest /\ MoreRest
    /\ OneSchedule({r \in PollRows : r.paused_until = None /\ r.target = <<"c1", 1>>})

NextPause ==
    \/ \E id \in SchedIds, until \in PauseTimes : PauseSchedule(id, until)
    \/ \E p \in Pollers : PollerSteps(p)
    \/ Tick

SpecPause == InitPause /\ [][NextPause]_vars

\* Tags of a cluster that opted in to stop operations: a plain one, a production
\* one, and a production one whose first environment key is not production
FleetTags ==
    {AutoStopTags,
     <<<<"env", "prod">>>> \o AutoStopTags,
     <<<<"env", "dev">>, <<"Environment", "prod">>>> \o AutoStopTags}

\* Dispatchers and workers over a fleet with arbitrary tags; no call fails, and
\* a worker skips a message whose cluster discovery does not return
InitProd ==
    /\ asg \in [FleetOne -> InitSizes]
    /\ asg0 = asg
    /\ ctags \in [FleetClusters(asg) -> FleetTags]
    /\ WorkerRest /\ TableRest /\ LockRest /\ DeriveRest
    /\ GuardRest /\ SchedRest /\ FanRest /\ SnapRest /\ MoreRest

NextProd ==
    \/ DispatchSteps
    \/ \E refs \in SUBSET FleetClusters(asg), target \in ScaleTargets :
           TriggerExplicit(refs, target)
    \/ \E w \in Workers : HappySteps(w) \/ DiscoverMissing(w)

SpecProd == InitProd /\ [][NextProd]_vars

\* Operations dispatched one after the other, each processed to the end; then
\* one message of the latest operation is delivered a second time. No call fails
InitTwice ==
    /\ asg \in [FleetOne -> TripSizes]
    /\ asg0 = asg
    /\ WorkerRest /\ TableRest /\ LockRest /\ DeriveRest /\ ExtRest

NextTwice ==
    \/ ~snap.taken /\ AtRest /\ DispatchSteps
    \/ \E m \in UNION {OpMessages(op) : op \in 1..nextOp} : DuplicateDelivery(m)
    \/ \E w \in Workers : HappySteps(w)

SpecTwice == InitTwice /\ [][NextTwice]_vars

\* fan_out_operation on arbitrary cluster lists
InitFanOut ==
    /\ fo \in {[FoIdle EXCEPT !.pc = "publish", !.clusters = clusters, !.i = 1] :
                  clusters \in ClusterLists}
    /\ FleetRest /\ WorkerRest /\ TableRest /\ LockRest /\ DeriveRest
    /\ TagsRest /\ GuardRest /\ SchedRest /\ SnapRest /\ MoreRest

NextFanOut == PublishOk \/ PublishRaises \/ FanOutReturn

SpecFanOut == InitFanOut /\ [][NextFanOut]_vars


\* The three paths that create an operation, step by step, next to the workers;
\* store and publish calls of the handler may fail
InitSeed ==
    /\ FleetTwoRest /\ WorkerRest /\ TableRest /\ LockRest /\ DeriveRest /\ ExtRest

SeedSteps ==
    \/ SeedStop
    \/ \E src \in 1..MaxOps : SeedStart(src)
    \/ \E target \in ScaleTargets : SeedTrigger(target)
    \/ SeedWrite
    \/ SeedWriteRaises
    \/ SeedPublish
    \/ SeedPublishRaises
    \/ SeedFanOutReturn

\* One worker invocation at a time consumes the messages
NextSeed ==
    \/ SeedSteps
    \/ HappySteps("w1")

SpecSeed == InitSeed /\ [][NextSeed]_vars

\* Sizes a schedule may carry: each of desired_capacity, min_size and max_size
\* absent or given
TargetValues == {None, 0, 2}
SubsetTargets == [1..3 -> TargetValues]

\* The steps of a worker on scale messages; the Auto Scaling API may reject
\* the update
ScaleSteps(w) ==
    \/ \E b \in InjSeqs(queue, MaxBatch) : Receive(w, b)
    \/ DiscoverFound(w)
    \/ Scale(w)
    \/ ControllerRaises(w)
    \/ Patch(w)
    \/ ReadNgs(w)
    \/ WriteCluster(w)
    \/ ReadClusters(w)
    \/ WriteMeta(w)
    \/ HandlerReturn(w)

\* Schedule triggers with any subset of the three sizes, and one worker
\* invocation at a time
NextScale ==
    \/ \E target \in SubsetTargets : TriggerScale(target)
    \/ ScaleSteps("w1")

SpecScale == Init /\ [][NextScale]_vars

\* One call of a decorated controller method, its attempts failing or not
InitRetry ==
    /\ FleetRest /\ WorkerRest /\ TableRest /\ LockRest /\ DeriveRest
    /\ TagsRest /\ GuardRest /\ SchedRest /\ FanRest /\ SnapRest
    /\ SeedRest /\ RetryRest /\ FindAsgRest /\ CronRest /\ LastRest

NextRetry ==
    \/ \E method \in ControllerMethods : ControllerCall(method)
    \/ AttemptReturns
    \/ \E e \in Raisable : AttemptRaises(e)

SpecRetry == InitRetry /\ [][NextRetry]_vars

\* Two enabled schedules, one for each nodegroup, with their mapping rows
TwoSchedules ==
    /\ \E r1 \in {r \in PollRows : r.target = <<"c1", 1>>},
          r2 \in {r \in PollRows : r.target = <<"c1", 2>>} :
          sched = [i \in SchedIds |-> IF i = 1 THEN r1 ELSE r2]
    /\ asgmap = [t \in SchedTargets |-> t[2]]
    /\ execs = <<>>
    /\ mg = [c \in Managers |-> MgIdle]
    /\ pl = [p \in Pollers |-> PlIdle]
    /\ trig = <<>>

\* Poller invocations, one at a time, whose calls may fail
InitPollFaults ==
    /\ FleetTwoRest /\ WorkerRest /\ TableRest /\ PollLockRest /\ DeriveRest
    /\ TagsRest /\ GuardRest /\ FanRest /\ SnapRest /\ MoreRest
    /\ TwoSchedules

PollerFaults(p) ==
    \/ PollResumeRaises(p)
    \/ PollCronRaises(p)
    \/ PollLockRaises(p)
    \/ PollTriggerRaises(p)
    \/ PollRecordRaises(p)

NextPollFaults ==
    \/ PollerSteps("q1")
    \/ PollerFaults("q1")
    \/ Tick

SpecPollFaults == InitPollFaults /\ [][NextPollFaults]_vars

\* is_triggered on every cron, time zone and instant of the first minutes
InitCron ==
    /\ tIn \in [cron : Crons, tz : TzOffsets, t : CronInstants]
    /\ tOut = [done |-> FALSE, val |-> FALSE]
    /\ FleetRest /\ WorkerRest /\ TableRest /\ LockRest /\ DeriveRest
    /\ TagsRest /\ GuardRest /\ SchedRest /\ FanRest /\ SnapRest
    /\ SeedRest /\ RetryRest /\ FindAsgRest /\ LastRest

SpecCron == InitCron /\ [][IsTriggeredCall]_vars

\* _find_asg_name on every listing of up to MaxAsgs ASGs
InitFindAsg ==
    /\ aIn \in AsgListings
    /\ aOut = NotCalled
    /\ FleetRest /\ WorkerRest /\ TableRest /\ LockRest /\ DeriveRest
    /\ TagsRest /\ GuardRest /\ SchedRest /\ FanRest /\ SnapRest
    /\ SeedRest /\ RetryRest /\ CronRest /\ LastRest

SpecFindAsg == InitFindAsg /\ [][FindAsgCall]_vars

\* Operations of the API and the schedule path, and messages lacking a
\* required key, consumed by one worker whose discovery may raise
NextDrop ==
    \/ DispatchSteps
    \/ \E m \in InvalidMessages : InjectInvalid(m)
    \/ HappySteps("w1")
    \/ DropInvalid("w1")
    \/ DiscoverRaises("w1")

SpecDrop == Init /\ [][NextDrop]_vars

\* Threads calling get_assumed_role_session concurrently
InitSession ==
    /\ cc = CcIdle
    /\ PoolRest /\ SkipRest
    /\ FleetRest /\ WorkerRest /\ TableRest /\ LockRest /\ DeriveRest
    /\ TagsRest /\ GuardRest /\ SchedRest /\ FanRest /\ SnapRest
    /\ SeedRest /\ RetryRest /\ FindAsgRest /\ CronRest

NextSession ==
    \/ \E t \in Threads, key \in CacheKeys : SessionCall(t, key)
    \/ \E t \in Threads :
          \/ AcquireForLookup(t)
          \/ Lookup(t)
          \/ AssumeRoleReturns(t)
          \/ AssumeRoleRaises(t)
          \/ AcquireForInsert(t)
          \/ Insert(t)
    \/ \E key \in CacheKeys : EntryExpires(key)

SpecSession == InitSession /\ [][NextSession]_vars

\* discover_all_resources over tasks that find up to MaxTaskClusters clusters
InitPool ==
    /\ dv \in {[DvIdle EXCEPT !.n = n] : n \in [Tasks -> 0..MaxTaskClusters]}
    /\ SessionRest /\ SkipRest
    /\ FleetRest /\ WorkerRest /\ TableRest /\ LockRest /\ DeriveRest
    /\ TagsRest /\ GuardRest /\ SchedRest /\ FanRest /\ SnapRest
    /\ SeedRest /\ RetryRest /\ FindAsgRest /\ CronRest

NextPool ==
    \/ \E t \in Tasks :
          \/ TaskStart(t)
          \/ TaskAppend(t)
          \/ TaskReturns(t)
          \/ TaskRaises(t)
          \/ Collect(t)
    \/ DiscoveryReturns

SpecPool == InitPool /\ [][NextPool]_vars

\* Two nodegroups whose ASGs may carry the skip tag; operations dispatched
\* from discovery and from explicit cluster references, one worker
SkipValues == {"", "true", "True"}

InitSkip ==
    /\ asg \in [FleetTwo -> {<<2, 1, 3>>}]
    /\ asg0 = asg
    /\ atags \in [FleetTwo -> SkipValues]
    /\ WorkerRest /\ TableRest /\ LockRest /\ DeriveRest
    /\ TagsRest /\ GuardRest /\ SchedRest /\ FanRest /\ SnapRest
    /\ SeedRest /\ RetryRest /\ FindAsgRest /\ CronRest /\ SessionRest /\ PoolRest

NextSkip ==
    \/ DispatchSteps
    \/ \E target \in ScaleTargets : TriggerExplicit(FleetClusters(asg), target)
    \/ HappySteps("w1")
    \/ DiscoverMissing("w1")

SpecSkip == InitSkip /\ [][NextSkip]_vars

\* Up to MaxFrameOps operations over one or two clusters, then whole
\* update_nodegroup_status calls one at a time
MaxFrameOps == 2

FrameCluster(c, n) == [cluster_id |-> c, node_groups |-> NgDicts(DistinctNames(n))]
FrameLists == {<<FrameCluster("c1", 1)>>, <<FrameCluster("c1", 2)>>,
               <<FrameCluster("c1", 1), FrameCluster("c2", 1)>>}

NextFrame ==
    \/ \E clusters \in FrameLists : nextOp < MaxFrameOps /\ CreateOpDo("stop", clusters)
    \/ \E op \in 1..MaxFrameOps, c \in ClusterIds, n \in 1..MaxUpdName,
          status \in {"COMPLETED", "FAILED"} : UpdateNg(op, <<c, n>>, status)

SpecFrame == InitCreate /\ [][NextFrame]_vars


\* Operations of the API and the schedule path worked off by one worker that
\* is always scheduled: the queue delivers every message it holds, and an
\* invocation runs to its end. Whether re-discovery returns the nodegroup of a
\* message is the cloud's choice
ProgressStep == HappySteps("w1") \/ DiscoverMissing("w1")

NextProgress ==
    \/ DispatchSteps
    \/ ProgressStep

SpecProgress == Init /\ [][NextProgress]_vars /\ WF_vars(ProgressStep)


\* The poller over a fleet whose cluster carries arbitrary tags: discovery
\* returns the cluster, or drops it as a production cluster and returns nothing
InitExec ==
    /\ FleetTwoRest /\ WorkerRest /\ TableRest /\ PollLockRest /\ DeriveRest
    /\ ctags \in [FleetClusters(asg) -> FleetTags]
    /\ GuardRest /\ FanRest /\ SnapRest /\ MoreRest
    /\ OneSchedule(PollRows)

NextExec ==
    \/ \E p \in Pollers : PollerSteps(p)
    \/ Tick

SpecExec == InitExec /\ [][NextExec]_vars


\* The schedule API called with ids of schedules that exist and with ids under
\* which nothing is stored
UnknownSteps ==
    \/ \E id \in SchedIds, value \in BOOLEAN : UpdateUnknown(id, value)
    \/ \E id \in SchedIds : DeleteUnknown(id)
    \/ \E id \in SchedIds, until \in {None, TicksPerMinute} : PauseUnknown(id, until)

NextUnknown ==
    \/ ManagerSteps
    \/ UnknownSteps

SpecUnknown == InitSched /\ [][NextUnknown]_vars

-----------------------------------------------------------------------------
(* Properties *)

\* The message of operation op for nodegroup k is waiting or being processed
InFlight(op, k) ==
    \/ \E m \in queue : m.op = op /\ <<m.cid, m.name>> = k
    \/ \E w \in Workers :
          /\ wk[w].pc \notin {"idle", "return"}
          /\ \E j \in wk[w].i..Len(wk[w].batch) :
                wk[w].batch[j].op = op
                /\ <<wk[w].batch[j].cid, wk[w].batch[j].name>> = k

\* Operation op has a row for nodegroup k and its message has been processed
Handled(op, k) == NgKey(op, k[1], k[2]) \in DOMAIN table /\ ~InFlight(op, k)

NgRow(op, k) == table[NgKey(op, k[1], k[2])]

\* C1: stop/start round trip. For a nodegroup whose ASG starts at (d, m, x) with
\* no baseline row: once its stop message is processed (and until the start
\* message is taken up) the ASG is at (0, 0, x) and the baseline row holds
\* (d, m, x); once the start message is processed the ASG is back at (d, m, x),
\* the baseline row is gone, and the NG rows of both operations are COMPLETED.
RoundTrip ==
    \A k \in DOMAIN asg :
        /\ (Handled(1, k) /\ (nextOp = 1 \/ \E m \in queue : m.op = 2 /\ <<m.cid, m.name>> = k))
              => /\ asg[k] = <<0, 0, asg0[k][3]>>
                 /\ baseline[k] = asg0[k]
                 /\ NgRow(1, k).status = "COMPLETED"
        /\ Handled(2, k)
              => /\ asg[k] = asg0[k]
                 /\ baseline[k] = NoSizes
                 /\ NgRow(1, k).status = "COMPLETED"
                 /\ NgRow(2, k).status = "COMPLETED"

\* A nodegroup that ran at desired > min > 0 has been stopped and started again
RoundTripDone ==
    \E k \in DOMAIN asg :
        /\ Handled(2, k)
        /\ asg0[k] = <<2, 1, 2>>
        /\ asg[k] = asg0[k]
        /\ NgRow(2, k).current_desired = 2

\* C2: baseline idempotence. A save_baseline on a key whose row exists returns
\* false and leaves every stored row as it is, whatever sizes it carries and
\* whichever worker makes it; a save returns true only when the row was absent
\* (then the row holds the sizes passed in); and no step of any worker replaces
\* the sizes of an existing row by other sizes.
BaselineIdempotent ==
    [][/\ \A w \in Workers :
            (wk[w].pc = "save" /\ wk'[w].pc = "describe") =>
                /\ baseline[NgId(w)] # NoSizes
                      => wk'[w].loc.ret = "false" /\ baseline' = baseline
                /\ wk'[w].loc.ret = "true"
                      => baseline[NgId(w)] = NoSizes /\ baseline'[NgId(w)] = wk[w].loc.ng
                /\ wk'[w].loc.ret \in {"true", "false"}
       /\ \A k \in DOMAIN baseline :
            baseline[k] # NoSizes => baseline'[k] \in {baseline[k], NoSizes}]_vars

\* A second stop saved other sizes on an existing row and got false
SecondSaveRefused ==
    \E w \in Workers :
        /\ wk[w].pc = "describe"
        /\ wk[w].loc.ret = "false"
        /\ baseline[NgId(w)] # NoSizes
        /\ baseline[NgId(w)] # wk[w].loc.ng

\* C3: a baseline row is deleted only by a worker processing a start message,
\* at its delete_baseline call, after start_nodegroup returned and the COMPLETED
\* update of that nodegroup returned; no other step (stop, scale, failed start)
\* removes a row.
DeletedOnlyBySuccessfulStart ==
    [][\A k \in DOMAIN baseline :
          (baseline[k] # NoSizes /\ baseline'[k] = NoSizes) =>
              \E w \in Workers :
                  /\ wk[w].pc = "delete"
                  /\ wk'[w].pc # "delete"
                  /\ NgId(w) = k
                  /\ Msg(w).action = "start"
                  /\ wk[w].loc.st = "COMPLETED"
                  /\ wk[w].loc.asgDone
                  /\ wk[w].loc.updDone]_vars

\* A start restored a saved baseline and removed the row, while a failed start
\* of an earlier delivery would have kept it
BaselineDeletedAfterStart ==
    \E k \in DOMAIN baseline :
        /\ baseline[k] = NoSizes
        /\ asg0[k][1] > 0
        /\ asg[k] = asg0[k]
        /\ \E op \in 1..nextOp :
              /\ NgKey(op, k[1], k[2]) \in DOMAIN table
              /\ NgRow(op, k).action = "start"
              /\ NgRow(op, k).status = "COMPLETED"
        /\ \E op \in 1..nextOp :
              /\ NgKey(op, k[1], k[2]) \in DOMAIN table
              /\ NgRow(op, k).action = "stop"
              /\ NgRow(op, k).status = "COMPLETED"

\* C4: aggregate consistency at rest. Once every update_nodegroup_status call has
\* finished (no message waiting or being processed), every CLUSTER row's status
\* is derive of its NG rows' statuses and every META row's status is derive of
\* its CLUSTER rows' statuses.
AggregatesAtRest ==
    AtRest =>
        \A op \in 1..nextOp :
            MetaKey(op) \in DOMAIN table =>
                /\ \A k \in ClusterRows(table, op) :
                      table[k].status = Derive(ClusterNgStatuses(table, op, k[3]))
                /\ table[MetaKey(op)].status = Derive(OpClusterStatuses(table, op))

\* The rules of C5 that the code and the claim share
DeriveCommonRules(S, out) ==
    /\ S = {} => out = "UNKNOWN"
    /\ S = {"COMPLETED"} => out = "COMPLETED"
    /\ S = {"FAILED"} => out = "FAILED"
    /\ ("PENDING" \in S \/ "IN_PROGRESS" \in S) => out = "IN_PROGRESS"

\* No rule above the last one applies to S, PARTIAL_FAILURE rule aside
DeriveNoEarlyRule(S) ==
    /\ S # {} /\ S # {"COMPLETED"} /\ S # {"FAILED"}
    /\ "PENDING" \notin S /\ "IN_PROGRESS" \notin S

\* C5 as stated: derive returns UNKNOWN for the empty collection, COMPLETED for
\* exactly {COMPLETED}, FAILED for exactly {FAILED}, IN_PROGRESS when PENDING or
\* IN_PROGRESS is present, PARTIAL_FAILURE for exactly {COMPLETED, FAILED}, and
\* IN_PROGRESS in every remaining case.
DeriveAsStated ==
    dOut # "" =>
        LET S == Range(dIn)
        IN  /\ DeriveCommonRules(S, dOut)
            /\ S = {"COMPLETED", "FAILED"} => dOut = "PARTIAL_FAILURE"
            /\ (DeriveNoEarlyRule(S) /\ S # {"COMPLETED", "FAILED"}) => dOut = "IN_PROGRESS"

\* C5 amended: as stated, except that PARTIAL_FAILURE is returned whenever the
\* set contains both COMPLETED and FAILED and neither PENDING nor IN_PROGRESS,
\* whatever else it contains; IN_PROGRESS in every remaining case.
DeriveAmended ==
    dOut # "" =>
        LET S == Range(dIn)
        IN  /\ DeriveCommonRules(S, dOut)
            /\ (DeriveNoEarlyRule(S) /\ "COMPLETED" \in S /\ "FAILED" \in S)
                  => dOut = "PARTIAL_FAILURE"
            /\ (DeriveNoEarlyRule(S) /\ ~("COMPLETED" \in S /\ "FAILED" \in S))
                  => dOut = "IN_PROGRESS"

\* derive was called on COMPLETED, FAILED and a third terminal status
DeriveMixWithOther ==
    /\ Range(dIn) = {"COMPLETED", "FAILED", "PARTIAL_FAILURE"}
    /\ dOut = "PARTIAL_FAILURE"

\* Every NG row of op is COMPLETED or FAILED
AllNgTerminal(op) ==
    \A k \in NgRows(table, op) : table[k].status \in {"COMPLETED", "FAILED"}

\* C6: terminal aggregate under partial failure. With updates applied one at a
\* time, once every NG of an operation is COMPLETED or FAILED, a cluster whose
\* NGs are a mix of both has CLUSTER.status = PARTIAL_FAILURE and the operation
\* has META.status = PARTIAL_FAILURE; a failed NG has error_message set and
\* retry_count at least 1.
TerminalPartialFailure ==
    \A op \in 1..nextOp :
        (created[op].ok /\ nUpd > 0 /\ AllNgTerminal(op)) =>
            /\ \A k \in ClusterRows(table, op) :
                  ClusterNgStatuses(table, op, k[3]) = {"COMPLETED", "FAILED"} =>
                      /\ table[k].status = "PARTIAL_FAILURE"
                      /\ table[MetaKey(op)].status = "PARTIAL_FAILURE"
            /\ \A k \in NgRows(table, op) :
                  table[k].status = "FAILED" =>
                      table[k].error_message # NoError /\ table[k].retry_count >= 1

\* C7: worker failure reporting. For every record of a batch whose action raised
\* (baseline, controller or state call), the NG row has error_message set and a
\* failure counted, and the record's messageId is in batchItemFailures.
FailureReported ==
    \A w \in Workers :
        \A j \in 1..Len(wk[w].res) :
            wk[w].res[j].actionRaised =>
                LET m == wk[w].batch[j]
                IN  /\ table[NgKey(m.op, m.cid, m.name)].error_message # NoError
                    /\ table[NgKey(m.op, m.cid, m.name)].retry_count >= 1
                    /\ MsgId(m) \in Range(wk[w].failures)

\* C8: partial-batch reporting. While the handler runs, one result per record
\* already visited; batchItemFailures holds no id of a record that finished
\* without raising and no id twice; when the handler returns every record of
\* the batch has been processed.
PartialBatch ==
    \A w \in Workers :
        LET f == wk[w]
        IN  /\ f.pc # "idle" => Len(f.res) = f.i - 1
            /\ f.pc = "return" => Len(f.res) = Len(f.batch)
            /\ \A j \in 1..Len(f.res) :
                  ~f.res[j].raised => MsgId(f.batch[j]) \notin Range(f.failures)
            /\ \A a, b \in 1..Len(f.failures) : a # b => f.failures[a] # f.failures[b]
            /\ \A a \in 1..Len(f.failures) :
                  \E j \in 1..Len(f.res) : f.res[j].raised /\ MsgId(f.batch[j]) = f.failures[a]

\* A batch of two: the first record raised, the second was processed all the same
\* and is not reported
SecondRecordSurvives ==
    \E w \in Workers :
        /\ wk[w].pc = "return"
        /\ Len(wk[w].batch) = 2
        /\ wk[w].res[1].raised
        /\ ~wk[w].res[2].raised
        /\ wk[w].failures = <<MsgId(wk[w].batch[1])>>

\* C9: row counts. For every operation create_operation returned for,
\* META.total_nodegroups is the number of NG rows stored and META.total_clusters
\* the number of CLUSTER rows stored, also after update_nodegroup_status calls.
RowCounts ==
    \A op \in 1..nextOp :
        created[op].ok =>
            /\ MetaKey(op) \in DOMAIN table
            /\ table[MetaKey(op)].total_nodegroups = Cardinality(NgRows(table, op))
            /\ table[MetaKey(op)].total_clusters = Cardinality(ClusterRows(table, op))

\* C10: lock mutual exclusion. Of the acquire calls that returned, for one
\* lock_key no two returned true with the later one's time inside the window
\* [now, now + ttl_seconds] of the earlier one: within the window of a
\* successful acquire every other acquire that returns, returns false.
LockMutualExclusion ==
    \A i, j \in 1..Len(lockLog) :
        (i < j /\ lockLog[i].key = lockLog[j].key /\ lockLog[i].ok /\ lockLog[j].ok) =>
            lockLog[j].now > lockLog[i].now + lockLog[i].ttl

\* One acquire succeeded, a later one inside its window was refused, and one
\* after the window succeeded again
LockRefusedInsideWindow ==
    \E i, j, l \in 1..Len(lockLog) :
        /\ i < j /\ j < l
        /\ lockLog[i].key = lockLog[j].key /\ lockLog[j].key = lockLog[l].key
        /\ lockLog[i].ok /\ ~lockLog[j].ok /\ lockLog[l].ok
        /\ lockLog[j].now >= lockLog[i].now
        /\ lockLog[j].now <= lockLog[i].now + lockLog[i].ttl

\* C11: lock write condition and expiry. An acquire that read the time t
\* returns true iff the lock row is absent or its expires_at < t (at
\* t = expires_at it fails); on success the row's expires_at becomes t + ttl; on
\* failure the row is unchanged; no step deletes a lock row or moves its
\* expires_at back, and no step touches the row of another key.
LockWriteCondition ==
    [][/\ \A p \in Callers :
            (lcall[p].pc = "put" /\ Len(lockLog') = Len(lockLog) + 1 /\ lcall'[p].pc = "idle") =>
                LET f == lcall[p]
                    held == locks[f.key] # None /\ locks[f.key] >= f.now
                    e == lockLog'[Len(lockLog')]
                IN  /\ e.key = f.key /\ e.now = f.now
                    /\ e.ok <=> ~held
                    /\ e.ok => locks'[f.key] = f.now + f.ttl
                    /\ ~e.ok => locks'[f.key] = locks[f.key]
                    /\ \A k \in LockKeys \ {f.key} : locks'[k] = locks[k]
       /\ \A k \in LockKeys :
            locks[k] # None => locks'[k] # None /\ locks'[k] >= locks[k]]_vars

\* An acquire at exactly expires_at was refused and one after it succeeded
LockRefusedAtExpiry ==
    \E i, j, l \in 1..Len(lockLog) :
        /\ i < j /\ j < l
        /\ lockLog[i].key = lockLog[j].key /\ lockLog[j].key = lockLog[l].key
        /\ lockLog[i].ok /\ ~lockLog[j].ok /\ lockLog[l].ok
        /\ lockLog[j].now = lockLog[i].now + lockLog[i].ttl
        /\ lockLog[l].now > lockLog[j].now


\* A cluster is production when any tag whose key is env or environment
\* (case-insensitive) has the value prod or production (case-insensitive)
IsProduction(tags) ==
    \E i \in 1..Len(tags) :
        /\ Lower(tags[i][1]) \in {"env", "environment"}
        /\ Lower(tags[i][2]) \in {"prod", "production"}

\* C16: production guard in discovery. Whatever other tags a production cluster
\* carries and whatever label filter is supplied, discover_clusters does not
\* return it.
ProductionGuard == (gOut # "" /\ IsProduction(gIn.tags)) => gOut = "dropped"

\* C14: schedule create collision. When the mapping row of a target names a
\* schedule that exists and is enabled, the check of a create for that target
\* ends the call with an error, and the call has written neither a schedule row
\* nor a mapping row: the existing rows are unchanged. A create writes nothing
\* before its check.
CreateCollision ==
    [][\A c \in Managers :
          LET f == mg[c]
          IN  /\ (f.pc \in {"readmap", "readsched"} /\ mg'[c] # f) =>
                     sched' = sched /\ asgmap' = asgmap
              /\ (/\ f.pc = "readsched" /\ mg'[c] # f
                  /\ asgmap[f.target] = f.existing
                  /\ sched[f.existing].enabled = "true") =>
                     /\ mg'[c].pc = "idle" /\ mg'[c].ret = "error"
                     /\ sched[f.id] = NoRow /\ sched'[f.id] = NoRow]_vars

\* A create returned an error while an enabled schedule owns its target
CreateRefused ==
    \E c \in Managers :
        /\ mg[c].pc = "idle" /\ mg[c].ret = "error"
        /\ asgmap[mg[c].target] # None
        /\ sched[asgmap[mg[c].target]].enabled = "true"
        /\ sched[asgmap[mg[c].target]].target = mg[c].target
        /\ sched[mg[c].id] = NoRow

\* C15: schedule uniqueness. In every reachable state at most one schedule with
\* enabled = "true" exists for each target.
UniqueEnabled ==
    \A i, j \in SchedIds :
        (i # j /\ sched[i].enabled = "true" /\ sched[j].enabled = "true") =>
            sched[i].target # sched[j].target

\* C13: a paused schedule resumes by itself. A poll that starts before the
\* pause timer T of a paused schedule does not trigger it; a poll that starts
\* after T leaves the schedule enabled with the timer cleared, and has it
\* triggered for the poll's minute when its cron matches that minute.
PauseAutoResume ==
    [][\A p \in Pollers :
          LET f == pl[p]
          IN  /\ (f.pc = "trigger" /\ pl'[p].pc = "record") => f.list[f.i].id \notin f.held
              /\ (f.pc = "return" /\ pl'[p].pc = "idle") =>
                     \A i \in f.due :
                         /\ sched'[i].enabled = "true"
                         /\ sched'[i].paused_until = None
                         /\ CronMatches(sched[i].recurrence, Minute(f.now)) =>
                                \E n \in 1..Len(trig') :
                                    trig'[n].sid = i /\ trig'[n].key = Minute(f.now)]_vars

\* Successful acquires, trigger calls and EXEC rows of the poller for schedule
\* i under minute key m, made within minute m
AcquiredIn(i, m) ==
    {n \in 1..Len(lockLog) :
        lockLog[n].key = <<i, m>> /\ lockLog[n].ok /\ Minute(lockLog[n].now) = m}

TriggeredIn(i, m) ==
    {n \in 1..Len(trig) : trig[n].sid = i /\ trig[n].key = m /\ Minute(trig[n].at) = m}

RecordedIn(i, m) ==
    {n \in 1..Len(execs) :
        execs[n].sid = i /\ execs[n].key = m /\ Minute(execs[n].at) = m}

PollersIdle == \A p \in Pollers : pl[p].pc = "idle"

\* Poller p has run within minute m and found schedule i enabled with a cron
\* that matches m
RanFor(p, i, m) ==
    /\ pl[p].pc = "idle" /\ pl[p].runs > 0
    /\ Minute(pl[p].now) = m /\ Minute(pl[p].end) = m
    /\ \E n \in 1..Len(pl[p].list) :
          pl[p].list[n].id = i /\ CronMatches(pl[p].list[n].row.recurrence, m)

\* The listed item of schedule i is inside its pause window at the poll's now
InPauseWindow(p, i) ==
    \E n \in 1..Len(pl[p].list) :
        /\ pl[p].list[n].id = i
        /\ pl[p].list[n].row.paused_until # None
        /\ pl[p].now < pl[p].list[n].row.paused_until

ScheduleActsOnTarget ==
    \A op \in 1..Len(created) :
        LET t == sched[created[op].by].target
        IN  /\ \A k \in NgRows(table, op) : <<k[3], k[4]>> = t
            /\ \A m \in OpMessages(op) : <<m.cid, m.name>> = t

\* C17: production clusters are never mutated. No step changes the sizes of an
\* ASG that belongs to a production-tagged cluster.
ProductionNeverMutated ==
    [][\A k \in DOMAIN asg : IsProduction(ctags[k[1]]) => asg'[k] = asg[k]]_vars

\* C19: redelivery idempotence. Once a message that was processed has been
\* delivered and processed a second time, the ASG sizes and the baseline store
\* are what the first processing left.
RedeliveryIdempotent ==
    (snap.taken /\ AtRest) => (asg = snap.asg /\ baseline = snap.baseline)

\* C20: fan-out is best-effort per message. When fan_out_operation is over, one
\* publish has been attempted for every nodegroup of the clusters (a failed one
\* does not stop the others), and the caller has received the number of
\* messages published.
FanOutBestEffort ==
    fo.pc \in {"returned", "raised"} =>
        /\ fo.i > Len(FanOutOrder(fo.clusters))
        /\ fo.ret.nodegroups_count = Len(fo.published)

\* The messages that are waiting or in a worker's batch
MessagesOut ==
    queue \cup UNION {Range(wk[w].batch) : w \in Workers}

\* Every row create_operation builds for operation op is stored
Seeded(op) ==
    LET items == Items(op, created[op].action, created[op].clusters)
    IN  \A n \in 1..Len(items) : items[n].key \in DOMAIN table

\* C21: seed before publish. On every path that creates an operation (API
\* stop, API start, schedule trigger), whenever a message of the operation has
\* been published, all its META, CLUSTER and NG rows are stored and
\* create_operation has returned; so the NG row of a message that a worker
\* processes exists.
SeedBeforePublish ==
    \A m \in MessagesOut :
        /\ m.op \in 1..Len(created)
        /\ created[m.op].ok
        /\ Seeded(m.op)
        /\ NgKey(m.op, m.cid, m.name) \in DOMAIN table
        /\ (dp.pc # "idle" /\ dp.op = m.op) => dp.items = <<>>

\* A worker updates the NG row of a message while the handler is still
\* publishing the operation's other messages
WorkerDuringFanOut ==
    \E w \in Workers :
        /\ wk[w].pc = "readngs"
        /\ dp.pc = "publish" /\ dp.op = Msg(w).op
        /\ dp.i <= Len(dp.msgs)
        /\ NgRow(Msg(w).op, NgId(w)).status = "COMPLETED"

\* C22: effect of stop_nodegroup. When the ASG it describes is at desired = 0
\* and min = 0 it returns SKIPPED and issues no update; otherwise its update
\* sets min = 0 and desired = 0 and passes the max size it read, so the ASG's
\* max size after the call is the max size the call found; no other ASG is
\* touched.
StopEffect ==
    [][\A w \in Workers :
          LET f == wk[w]
          IN  /\ (f.pc = "describe" /\ wk'[w].pc = "zero") =>
                     /\ ~AlreadyAtZero(asg[NgId(w)])
                     /\ asg' = asg
                     /\ wk'[w].loc.tgt = <<0, 0, asg[NgId(w)][3]>>
              /\ (f.pc = "describe" /\ wk'[w].pc = "patch" /\ wk'[w].loc.st = "COMPLETED") =>
                     /\ AlreadyAtZero(asg[NgId(w)])
                     /\ asg' = asg
                     /\ wk'[w].loc.ret = "SKIPPED"
              /\ (f.pc = "zero" /\ wk'[w].pc = "patch" /\ wk'[w].loc.st = "COMPLETED") =>
                     /\ asg'[NgId(w)] = <<0, 0, f.loc.tgt[3]>>
                     /\ \A k \in DOMAIN asg \ {NgId(w)} : asg'[k] = asg[k]
                     /\ wk'[w].loc.ret = "STOPPED"]_vars

\* A stop took an ASG from (2, 1, 3) to (0, 0, 3)
StoppedKeepsMax ==
    \E w \in Workers :
        /\ wk[w].pc = "patch"
        /\ wk[w].loc.ret = "STOPPED"
        /\ asg0[NgId(w)] = <<2, 1, 3>>
        /\ asg[NgId(w)] = <<0, 0, 3>>

\* C23: scale applies only the fields provided. The message of a scale
\* operation carries the sizes of the schedule, absent ones as null; the update
\* scale_nodegroup issues sets exactly the ASG fields whose target is given to
\* the targets and leaves every other field, and every other ASG, as it was;
\* the COMPLETED update of the NG row sets current_desired to target_desired
\* when that is given and leaves it as it was otherwise.
ScaleOnlyProvided ==
    [][\A w \in Workers :
          LET f == wk[w]
          IN  /\ (f.pc = "scale" /\ wk'[w].pc = "patch" /\ wk'[w].loc.st = "COMPLETED") =>
                     LET t == created[Msg(w).op].target
                     IN  /\ Msg(w).target = t
                         /\ \A i \in 1..3 :
                               asg'[NgId(w)][i] =
                                   IF t[i] # None THEN t[i] ELSE asg[NgId(w)][i]
                         /\ \A k \in DOMAIN asg \ {NgId(w)} : asg'[k] = asg[k]
              /\ (/\ f.pc = "patch" /\ wk'[w].pc = "readngs"
                  /\ Msg(w).action = "scale" /\ f.loc.st = "COMPLETED") =>
                     LET t == created[Msg(w).op].target
                         key == NgKey(Msg(w).op, Msg(w).cid, Msg(w).name)
                     IN  table'[key].current_desired =
                             IF t[1] # None THEN t[1] ELSE table[key].current_desired]_vars

\* A schedule that carries only min_size = 0 took an ASG from (2, 1, 3) to
\* (2, 0, 3); the NG row is COMPLETED with the current_desired it was seeded with
ScaledMinOnly ==
    \E op \in 1..nextOp, k \in DOMAIN asg :
        /\ created[op].target = <<None, 0, None>>
        /\ asg0[k] = <<2, 1, 3>>
        /\ asg[k] = <<2, 0, 3>>
        /\ NgKey(op, k[1], k[2]) \in DOMAIN table
        /\ NgRow(op, k).status = "COMPLETED"
        /\ NgRow(op, k).current_desired = 2

\* C24: start without a baseline. When a worker processes a start message for
\* a nodegroup that has no baseline row, the sizes it restores are desired, min
\* and max all equal to the nodegroup's current min_size; the update sets the
\* ASG to them and the NG row becomes COMPLETED.
StartWithoutBaseline ==
    [][\A w \in Workers :
          LET f == wk[w]
          IN  /\ (f.pc = "get" /\ wk'[w].pc = "restore" /\ baseline[NgId(w)] = NoSizes) =>
                     wk'[w].loc.tgt = <<f.loc.ng[2], f.loc.ng[2], f.loc.ng[2]>>
              /\ (f.pc = "restore" /\ wk'[w].pc = "patch" /\ wk'[w].loc.st = "COMPLETED") =>
                     asg'[NgId(w)] = f.loc.tgt]_vars

\* C25: controller retry. A call of stop_nodegroup, start_nodegroup or
\* scale_nodegroup makes at most 5 attempts, and an attempt is followed by
\* another one only when it failed with a throttle/transient error: any other
\* error leaves the call after the attempt that raised it.
RetryOnlyTransient ==
    /\ rt.attempt <= StopAfterAttempt
    /\ \A i \in 1..Len(rt.errs) :
           (i < Len(rt.errs) \/ rt.pc \in {"attempt", "returned"}) =>
               rt.errs[i] \in Transient

\* C26: poller failure isolation. An invocation of the poller always ends with
\* its summary: a call that fails while one schedule is handled (resume update,
\* cron evaluation, lock, trigger, execution record) is counted in errors, and
\* every schedule of the list is evaluated all the same.
PollerIsolation ==
    \A p \in Pollers :
        /\ pl[p].ret # "raised"
        /\ pl[p].ret = "summary" =>
               /\ pl[p].i > Len(pl[p].list)
               /\ pl[p].errors = pl[p].failed

\* C27: exact-minute cron matching. is_triggered(cron, tz, t) is true iff the
\* cron schedules the minute that contains t on the wall clock of the time
\* zone: true at every instant of a firing minute, false at every instant of a
\* minute that does not fire.
ExactMinute ==
    tOut.done => (tOut.val <=> CronMatches(tIn.cron, Minute(tIn.t) + tIn.tz))

\* "1 * * * *" in UTC was found to fire at the last instant of minute 1
FiresAtEndOfMinute ==
    /\ tOut.done /\ tOut.val
    /\ tIn.cron = MinuteOne /\ tIn.tz = 0
    /\ tIn.t = 2 * TicksPerMinute - 1

\* The stop of operation op has scaled the ASG of nodegroup k to zero and the
\* ASG is still there
ZeroedByStop(op, k) ==
    /\ NgKey(op, k[1], k[2]) \in DOMAIN table
    /\ NgRow(op, k).action = "stop"
    /\ NgRow(op, k).status = "COMPLETED"
    /\ ~AlreadyAtZero(NgRow(op, k).original)
    /\ AlreadyAtZero(asg[k])

\* Every ASG that a stop has scaled to zero has a baseline row, and a stop
\* worker is at stop_nodegroup only with the result of save_baseline in hand
BaselineKept ==
    /\ \A w \in Workers :
          wk[w].pc = "describe" => wk[w].loc.ret \in {"true", "false"}
    /\ \A op \in 1..nextOp, k \in DOMAIN asg :
          ZeroedByStop(op, k) => baseline[k] # NoSizes

\* C28: the baseline is captured before the scale-down. A stop worker reaches
\* stop_nodegroup only after save_baseline has returned true or false; after
\* every step an ASG that a stop worker has scaled to zero has a baseline row;
\* and a step in which save_baseline raises leaves every ASG as it was.
BaselineBeforeZero ==
    [][/\ BaselineKept'
       /\ \A w \in Workers :
             (wk[w].pc = "save" /\ wk'[w].loc.inExc) => asg' = asg]_vars

\* The positions of the listing whose ASG matches the cluster, of those the
\* ones tagged with the requested nodegroup, and the ones named after it
ClusterAsgs == {i \in 1..Len(aIn) : ClusterMatched(aIn[i])}
TaggedAsgs == {i \in ClusterAsgs : aIn[i].nodegroup = WantedNodegroup}
NamedAsgs == {i \in ClusterAsgs : aIn[i].named}

\* C29: _find_asg_name returns a cluster-matched ASG tagged with the requested
\* nodegroup if there is one anywhere in the listing; otherwise a
\* cluster-matched ASG whose name contains the nodegroup name if there is one;
\* otherwise the first cluster-matched ASG; and None if no ASG matches the
\* cluster.
AsgPreference ==
    aOut.done =>
        IF TaggedAsgs # {} THEN aOut.val \in TaggedAsgs
        ELSE IF NamedAsgs # {} THEN aOut.val \in NamedAsgs
        ELSE IF ClusterAsgs # {}
             THEN aOut.val \in ClusterAsgs /\ \A i \in ClusterAsgs : aOut.val <= i
        ELSE aOut.val = NoAsg

\* The firings by the poller, as positions of trig
PollerFirings == {n \in 1..Len(trig) : trig[n].by # "api"}

\* C30: the lock key names the evaluated minute. For every firing by the
\* poller the minute in the lock key is the UTC minute against which the cron
\* was evaluated, and no two firings by the poller of the same schedule for the
\* same cron minute were made under different lock keys.
LockKeyIsCronMinute ==
    /\ \A n \in PollerFirings : trig[n].key = trig[n].cron
    /\ \A m, n \in PollerFirings :
          (trig[m].sid = trig[n].sid /\ trig[m].cron = trig[n].cron)
              => trig[m].key = trig[n].key

SessionLocking ==
    [][\A t \in Threads :
          /\ cc'.lock = t => cc'.th[t].pc \in {"lookup", "insert"}
          /\ cc'.th[t].pc = "assume" => cc'.lock # t
          /\ (cc.th[t].pc = "assume" /\ cc'.th[t].pc = "idle")
                => cc'.th[t].raised /\ cc'.cache = cc.cache]_vars

\* One thread inserts under the mutex while the assume-role call of the other
\* is in flight, after an earlier session was cached
InsertDuringAssume ==
    \E t, u \in Threads :
        /\ cc.th[t].pc = "assume"
        /\ cc.lock = u /\ cc.th[u].pc = "insert"
        /\ \E k \in CacheKeys : cc.cache[k] # NoSession

\* The clusters of the tasks that did not raise
ClustersOfSucceeded ==
    UNION {Range(TaskClusters(dv.n, t)) : t \in Tasks \ dv.failed}

\* C33: discovery fault isolation. Whatever the order in which the tasks run
\* and complete, the clusters discover_all_resources returns are exactly the
\* clusters of the tasks that succeeded, each once; a task that raised
\* contributes none, and the call returns although tasks raised.
DiscoveryIsolation ==
    dv.returned =>
        /\ Range(dv.results) = ClustersOfSucceeded
        /\ Len(dv.results) = Cardinality(ClustersOfSucceeded)

\* The call returned the clusters of two tasks although the third task, which
\* had clusters to find, raised
RaisedTaskSkipped ==
    /\ dv.returned
    /\ Cardinality(dv.failed) = 1
    /\ \A t \in Tasks : dv.n[t] > 0
    /\ \E t \in Tasks \ dv.failed : dv.results[Len(dv.results)] \in Range(TaskClusters(dv.n, t))
    /\ Len(dv.results) >= 2

\* The nodegroups whose ASG is tagged eks-operator/skip = true
SkipTagged == {k \in DOMAIN asg : SkipTag(k) = "true"}

\* C34: skip-tagged ASGs are untouched. Discovery returns no node_group for
\* an ASG tagged eks-operator/skip = true, and no step of a worker, on a stop,
\* start or scale message, changes the sizes of such an ASG.
SkipUntouched ==
    [][/\ \A i \in 1..Len(Discovered(asg, ctags, NoFilter)) :
             LET c == Discovered(asg, ctags, NoFilter)[i]
             IN  \A j \in 1..Len(c.node_groups) :
                    <<c.cluster_id, c.node_groups[j].name>> \notin SkipTagged
       /\ \A k \in SkipTagged : asg'[k] = asg[k]]_vars

\* A message naming a skip-tagged nodegroup, built from explicit cluster
\* references, has been consumed, and the other nodegroup has been scaled
SkippedMessageConsumed ==
    /\ \E k \in SkipTagged, op \in 1..nextOp :
          /\ \E i \in 1..Len(created[op].clusters) :
                LET c == created[op].clusters[i]
                IN  \E j \in 1..Len(c.node_groups) : <<c.cluster_id, c.node_groups[j].name>> = k
          /\ created[op].ok
    /\ queue = {} /\ \A w \in Workers : wk[w].pc = "idle"
    /\ \E k \in DOMAIN asg \ SkipTagged : asg[k] # asg0[k]

\* Rows r and q differ at most in the named attributes
SameExcept(r, q, attrs) ==
    DOMAIN r = DOMAIN q /\ \A a \in DOMAIN r \ attrs : r[a] = q[a]

\* The step from table t to table u changes, of NG row k, at most status,
\* updated_at, error_message and current_desired, with retry_count one higher
\* iff the new status is FAILED; of the CLUSTER row and the META row above k
\* at most the attributes aggr; and nothing else
UpdateFrameOf(t, u, k, aggr) ==
    LET ck == ClusterKey(k[1], k[3])
        mk == MetaKey(k[1])
    IN  /\ DOMAIN u = DOMAIN t
        /\ \A q \in DOMAIN t \ {k, ck, mk} : u[q] = t[q]
        /\ SameExcept(t[k], u[k], {"status", "updated_at", "error_message",
                                   "current_desired", "retry_count"})
        /\ u[k].retry_count = t[k].retry_count + (IF u[k].status = "FAILED" THEN 1 ELSE 0)
        /\ SameExcept(t[ck], u[ck], aggr)
        /\ SameExcept(t[mk], u[mk], aggr)

\* C35 as stated: every update_nodegroup_status call changes only the status,
\* updated_at, error_message and current_desired of its NG row, the status of
\* the CLUSTER row and the status of the META row; retry_count goes up by one
\* iff the new status is FAILED; every other row and attribute is unchanged.
UpdateFrameAsStated ==
    [][nUpd' # nUpd =>
          \E k \in DOMAIN table : k[2] = "NG" /\ UpdateFrameOf(table, table', k, {"status"})]_vars

\* C35: every update_nodegroup_status call changes only the status,
\* updated_at, error_message and current_desired of its NG row and the status
\* and updated_at of the CLUSTER row and of the META row; retry_count goes up
\* by one iff the new status is FAILED; every other row and attribute is
\* unchanged.
UpdateFrame ==
    [][nUpd' # nUpd =>
          \E k \in DOMAIN table :
              k[2] = "NG" /\ UpdateFrameOf(table, table', k, {"status", "updated_at"})]_vars

\* Two operations exist; in one a nodegroup has failed twice while its sibling
\* is still pending, and the other operation has not been updated
FailedTwiceBesideOthers ==
    /\ nextOp = 2
    /\ \E k, q \in DOMAIN table :
          /\ k[2] = "NG" /\ q[2] = "NG" /\ k[1] = q[1] /\ k # q
          /\ table[k].retry_count = 2 /\ table[k].status = "FAILED"
          /\ table[q].status = "PENDING"
          /\ table[MetaKey(k[1])].updated_at = Later
    /\ \E op \in 1..2 : \A k \in DOMAIN table : k[1] = op => table[k].updated_at = AtCreation

\* The rows of operation op
OpRows(t, op) == {k \in DOMAIN t : k[1] = op}

\* C36: the initial operation state. Immediately after create_operation the
\* META row of the new operation has status IN_PROGRESS, every CLUSTER row
\* has status PENDING, every NG row has status PENDING, retry_count 0 and
\* original sizes equal to the sizes of the nodegroup's ASG that discovery
\* captured, and all rows of the operation carry the same expires_at.
InitialOperationState ==
    [][nextOp' = nextOp + 1 =>
          LET op == nextOp'
              rows == OpRows(table', op)
          IN  /\ MetaKey(op) \in rows
              /\ table'[MetaKey(op)].status = "IN_PROGRESS"
              /\ \A k \in rows :
                    /\ k[2] = "CLUSTER" => table'[k].status = "PENDING"
                    /\ k[2] = "NG" =>
                          /\ table'[k].status = "PENDING"
                          /\ table'[k].retry_count = 0
                          /\ table'[k].original = asg[<<k[3], k[4]>>]
                    /\ table'[k].expires_at = table'[MetaKey(op)].expires_at]_vars


\* The step left the row of schedule id in place, disabled, with the target
\* and recurrence it had, and out of list_schedules(enabled_only=True)
DisabledKept(id) ==
    /\ sched'[id] # NoRow
    /\ sched'[id].enabled = "false"
    /\ sched'[id].target = sched[id].target
    /\ sched'[id].recurrence = sched[id].recurrence
    /\ \A j \in DOMAIN EnabledSchedules(sched') : EnabledSchedules(sched')[j].id # id

\* C37: soft delete frees the target. delete(id) and pause(id) keep the
\* schedule row and set its enabled to "false"; the stored enabled value is
\* always one of the strings "true" and "false"; the schedule is no longer
\* returned by list(enabled_only); a create that finds the target mapped to a
\* disabled schedule goes on to write, and its mapping write makes the
\* mapping row point to the new schedule.
SoftDeleteFrees ==
    /\ [](\A id \in SchedIds : sched[id] # NoRow => sched[id].enabled \in {"true", "false"})
    /\ [][/\ \A id \in SchedIds :
                (DeleteSchedule(id) \/ \E until \in PauseTimes : PauseSchedule(id, until))
                    => DisabledKept(id)
          /\ \A c \in Managers :
                /\ (CreateReadSched(c) /\ sched[mg[c].existing].enabled = "false")
                       => mg'[c].pc = "put"
                /\ CreatePutMapping(c)
                       => /\ asgmap'[mg[c].target] = mg[c].id
                          /\ mg'[c].ret = "created"]_vars

\* A create succeeded for a target whose earlier schedule is kept, disabled,
\* and the mapping row names the new schedule
RecreatedAfterDelete ==
    \E c \in Managers, id \in SchedIds :
        /\ mg[c].pc = "idle" /\ mg[c].ret = "created"
        /\ mg[c].existing = id /\ id # mg[c].id
        /\ sched[id].enabled = "false" /\ sched[id].target = mg[c].target
        /\ sched[mg[c].id].enabled = "true"
        /\ asgmap[mg[c].target] = mg[c].id


\* The NG rows an operation on the one-nodegroup fleet can have
NgKeys == {<<op, "NG", k[1], k[2]>> : op \in 1..MaxOps, k \in FleetOne}

\* C38: operation progress. With every published message delivered and
\* processed by a worker, every NG row of an operation eventually has status
\* COMPLETED or FAILED, and the status of its META row eventually is not
\* IN_PROGRESS, also when re-discovery in the worker does not return the
\* message's cluster or nodegroup.
OperationProgress ==
    /\ \A key \in NgKeys :
           (key \in DOMAIN table)
               ~> (key \in DOMAIN table /\ table[key].status \in {"COMPLETED", "FAILED"})
    /\ \A op \in 1..MaxOps :
           (MetaKey(op) \in DOMAIN table)
               ~> (MetaKey(op) \in DOMAIN table /\ table[MetaKey(op)].status # "IN_PROGRESS")


\* C39: execution records match operations. Every EXEC# row written by the
\* poller names an operation that was created (a META row exists under its
\* operation_id); when an invocation returns its summary, its triggered count
\* is the number of operations it created; a trigger that matched no clusters
\* leaves no EXEC# row.
ExecsMatchOperations ==
    /\ \A j \in DOMAIN execs :
           execs[j].by \in Pollers =>
               /\ execs[j].op # None
               /\ MetaKey(execs[j].op) \in DOMAIN table
    /\ \A p \in Pollers :
           (pl[p].pc = "idle" /\ pl[p].ret = "summary") => pl[p].triggered = pl[p].ops
    /\ Cardinality({j \in DOMAIN execs : execs[j].by \in Pollers})
           <= Cardinality({j \in DOMAIN trig : trig[j].by \in Pollers /\ trig[j].op # None})


\* C40: unknown schedule id. update, delete or pause called with a schedule_id
\* under which no CONFIG row exists creates no schedule row: the schedule rows,
\* and the enabled schedules the poller lists, are what they were.
UnknownIdNoRow ==
    [][\A id \in SchedIds :
          (\/ \E value \in BOOLEAN : UpdateUnknown(id, value)
           \/ DeleteUnknown(id)
           \/ \E until \in PauseTimes : PauseUnknown(id, until))
              => /\ sched' = sched
                 /\ EnabledSchedules(sched') = EnabledSchedules(sched)]_vars

====
